---------------------------- MODULE Spec2Model ----------------------------
(***************************************************************************)
(* Model of crawler_app.crawler.Crawler: one crawl() of one engine, its    *)
(* asyncio worker tasks, the shared queue / visited set / results map.     *)
(*                                                                         *)
(* asyncio is cooperative: a task runs until it reaches an await that      *)
(* really suspends.  In this code these are Queue.get() on an empty queue, *)
(* fetch_page() (network I/O), Queue.join() and gather().  Queue.put() on  *)
(* the unbounded queue, Queue.get() on a non-empty queue and               *)
(* Semaphore.acquire() with a free permit return without suspending.  An   *)
(* action therefore is one run of a task from one suspension to the next.  *)
(* Tasks created or cancelled together are resumed in list order, as the   *)
(* event loop's ready queue is first-in first-out; which fetch returns     *)
(* next is free.                                                           *)
(*                                                                         *)
(* The web site is the environment.  The link set of a page is chosen when *)
(* the page is first served and kept in `site`.  Pages that no served page *)
(* has linked yet are interchangeable, so a page that links j such pages   *)
(* links the j lowest-numbered ones; j is free for every page.  Links that *)
(* cannot start a fetch (to pages already linked, to other hosts) follow   *)
(* one pattern per site, drawn in Init: `backlinks` and `offlinks`.        *)
(*                                                                         *)
(* The constructor and the functions of utils.py (get_domain_netloc,       *)
(* is_same_domain, normalize_url, fetch_page) are also taken one call at a *)
(* time, in CallSpec, on strings kept character by character, with         *)
(* urllib.parse's urlparse, urljoin and quote written out as Python 3.11   *)
(* computes them.  CliSpec is the crawl as cli.main runs it, next to the   *)
(* task that monitors its progress.                                        *)
(***************************************************************************)
EXTENDS Integers, Sequences, FiniteSets, TLC

\* ----------------------------------------------------------------- bounds
NumPages       == 4   \* same-host pages the site can serve (seed included)
MaxConcurrency == 2   \* concurrency is drawn from 1..MaxConcurrency
MaxBudget      == 3   \* max_pages is drawn from 1..MaxBudget
MaxNewLinks    == 2   \* links of one page to pages not linked before

\* ---------------------------------------------------------------- strings
\* A Python str is the sequence of its characters.  A host name that no
\* operation looks inside ("example.com") stands as one element.
Upper == <<"A", "B", "C", "D", "E", "F", "G", "H", "I", "J", "K", "L", "M",
           "N", "O", "P", "Q", "R", "S", "T", "U", "V", "W", "X", "Y", "Z">>

Lowercase == <<"a", "b", "c", "d", "e", "f", "g", "h", "i", "j", "k", "l", "m",
               "n", "o", "p", "q", "r", "s", "t", "u", "v", "w", "x", "y", "z">>

Letters == {Upper[i] : i \in DOMAIN Upper} \cup {Lowercase[i] : i \in DOMAIN Lowercase}

Digits == {"0", "1", "2", "3", "4", "5", "6", "7", "8", "9"}

LowerChar(c) ==
    IF \E i \in DOMAIN Upper : Upper[i] = c
    THEN Lowercase[CHOOSE i \in DOMAIN Upper : Upper[i] = c]
    ELSE c

\* str.lower
RECURSIVE lower(_)
lower(s) == IF s = <<>> THEN <<>> ELSE <<LowerChar(Head(s))>> \o lower(Tail(s))

\* str.find for one of the characters of C: the position of the first one,
\* counted from 1; 0 when there is none (Python counts from 0 and gives -1).
find_any(s, C) ==
    IF \E i \in 1 .. Len(s) : s[i] \in C
    THEN CHOOSE i \in 1 .. Len(s) : s[i] \in C /\ \A j \in 1 .. i - 1 : s[j] \notin C
    ELSE 0

find(s, c) == find_any(s, {c})

\* s.startswith(pre)
StartsWith(s, pre) == Len(s) >= Len(pre) /\ SubSeq(s, 1, Len(pre)) = pre

\* `sub in s`
Contains(s, sub) ==
    \E i \in 0 .. Len(s) - Len(sub) : SubSeq(s, i + 1, i + Len(sub)) = sub

\* s.split(sub, 1)[0]: what stands before the first occurrence of sub
Before(s, sub) ==
    IF Contains(s, sub)
    THEN SubSeq(s, 1, CHOOSE i \in 0 .. Len(s) - Len(sub) :
                         /\ SubSeq(s, i + 1, i + Len(sub)) = sub
                         /\ \A j \in 0 .. i - 1 : SubSeq(s, j + 1, j + Len(sub)) # sub)
    ELSE s

\* str.lstrip, str.rstrip and str.strip for the blank
RECURSIVE lstrip(_)
lstrip(s) == IF s # <<>> /\ Head(s) = " " THEN lstrip(Tail(s)) ELSE s

RECURSIVE rstrip(_)
rstrip(s) ==
    IF s # <<>> /\ s[Len(s)] = " " THEN rstrip(SubSeq(s, 1, Len(s) - 1)) ELSE s

strip(s) == rstrip(lstrip(s))

\* s.split(c): the list of the pieces between the occurrences of c
RECURSIVE split(_, _)
split(s, c) ==
    IF find(s, c) = 0 THEN <<s>>
    ELSE <<SubSeq(s, 1, find(s, c) - 1)>> \o split(SubSeq(s, find(s, c) + 1, Len(s)), c)

\* c.join(parts)
RECURSIVE join(_, _)
join(parts, c) ==
    IF parts = <<>> THEN <<>>
    ELSE IF Len(parts) = 1 THEN parts[1]
    ELSE parts[1] \o <<c>> \o join(Tail(parts), c)

Http == <<"h", "t", "t", "p">>

Https == <<"h", "t", "t", "p", "s">>

Ftp == <<"f", "t", "p">>

\* "://"
ProtocolMark == <<":", "/", "/">>

\* ------------------------------------------------------------ urllib.parse
\* urllib.parse.scheme_chars
scheme_chars == Letters \cup Digits \cup {"+", "-", "."}

\* urllib.parse.uses_relative and uses_netloc, as far as the schemes that
\* occur here go: a URL without scheme, http, https and ftp are in both
uses_relative == {<<>>, Http, Https, Ftp}

uses_netloc == {<<>>, Http, Https, Ftp}

\* What urlparse gives when it raises ValueError: no component at all.
ParseError ==
    [error |-> TRUE, scheme |-> <<>>, netloc |-> <<>>, path |-> <<>>,
     query |-> <<>>, fragment |-> <<>>]

\* s[:i] and s[i+1:] around the character at position i, s[i:] from it on;
\* with i = 0 (no such character) all of s stands before it.
Upto(s, i) == IF i = 0 THEN s ELSE SubSeq(s, 1, i - 1)

After(s, i) == IF i = 0 THEN <<>> ELSE SubSeq(s, i + 1, Len(s))

From(s, i) == IF i = 0 THEN <<>> ELSE SubSeq(s, i, Len(s))

\* urlsplit, last step: url.split('?', 1)
split_query(scheme, netloc, url, fragment) ==
    [error    |-> FALSE,
     scheme   |-> scheme,
     netloc   |-> netloc,
     path     |-> Upto(url, find(url, "?")),
     query    |-> After(url, find(url, "?")),
     fragment |-> fragment]

\* urlsplit: url.split('#', 1)
split_fragment(scheme, netloc, url) ==
    split_query(scheme, netloc, Upto(url, find(url, "#")), After(url, find(url, "#")))

\* urlsplit: a bracket without its partner in the netloc raises ValueError
check_netloc(scheme, netloc, url) ==
    IF (find(netloc, "[") > 0) # (find(netloc, "]") > 0) THEN ParseError
    ELSE split_fragment(scheme, netloc, url)

\* _splitnetloc: the netloc ends before the first of "/", "?", "#"
splitnetloc(scheme, url) ==
    check_netloc(scheme, Upto(url, find_any(url, {"/", "?", "#"})),
                 From(url, find_any(url, {"/", "?", "#"})))

\* urlsplit: the netloc is what follows "//"
split_netloc(scheme, url) ==
    IF StartsWith(url, <<"/", "/">>) THEN splitnetloc(scheme, SubSeq(url, 3, Len(url)))
    ELSE split_fragment(scheme, <<>>, url)

\* urlsplit: what stands before the first colon, at position i, is a scheme
\* when it starts with a letter and consists of scheme characters
has_scheme(url, i) ==
    /\ i > 1
    /\ url[1] \in Letters
    /\ \A k \in 1 .. i - 1 : url[k] \in scheme_chars

\* urlsplit: the scheme is lower-cased; without one the default is taken
split_scheme(url, default_scheme) ==
    IF has_scheme(url, find(url, ":"))
    THEN split_netloc(lower(Upto(url, find(url, ":"))), After(url, find(url, ":")))
    ELSE split_netloc(default_scheme, url)

\* urllib.parse.urlparse(url, scheme): leading blanks are dropped first
urlparse(url, default_scheme) == split_scheme(lstrip(url), default_scheme)

\* urlunsplit: "//" and the netloc come before the path when there is a
\* netloc, or a scheme that uses one and the path does not begin with "//"
net_path(p) ==
    IF \/ p.netloc # <<>>
       \/ /\ p.scheme # <<>>
          /\ p.scheme \in uses_netloc
          /\ ~StartsWith(p.path, <<"/", "/">>)
    THEN <<"/", "/">> \o p.netloc
         \o (IF p.path # <<>> /\ Head(p.path) # "/" THEN <<"/">> ELSE <<>>) \o p.path
    ELSE p.path

\* urlunsplit: a part is written after its mark when it is not empty
with_part(url, mark, part) == IF part # <<>> THEN url \o <<mark>> \o part ELSE url

\* urllib.parse.urlunparse
urlunparse(p) ==
    with_part(with_part((IF p.scheme # <<>> THEN p.scheme \o <<":">> ELSE <<>>)
                        \o net_path(p), "?", p.query), "#", p.fragment)

\* urljoin, the loop over the path segments: ".." drops the segment before
\* it (none at the root), "." is skipped.
RECURSIVE resolve(_, _)
resolve(segments, resolved_path) ==
    IF segments = <<>> THEN resolved_path
    ELSE IF Head(segments) = <<".", ".">>
    THEN resolve(Tail(segments),
                 IF resolved_path = <<>> THEN <<>>
                 ELSE SubSeq(resolved_path, 1, Len(resolved_path) - 1))
    ELSE IF Head(segments) = <<".">> THEN resolve(Tail(segments), resolved_path)
    ELSE resolve(Tail(segments), Append(resolved_path, Head(segments)))

\* urljoin: a last segment "." or ".." leaves a trailing "/"
resolved(segments) ==
    IF segments[Len(segments)] \in {<<".">>, <<".", ".">>}
    THEN Append(resolve(segments, <<>>), <<>>)
    ELSE resolve(segments, <<>>)

\* urljoin: segments[1:-1] = filter(None, segments[1:-1])
filter_inner(segments) ==
    IF Len(segments) <= 2 THEN segments
    ELSE <<segments[1]>>
         \o SelectSeq(SubSeq(segments, 2, Len(segments) - 1), LAMBDA seg : seg # <<>>)
         \o <<segments[Len(segments)]>>

\* urljoin: the last part of the base path counts only when it is a directory
base_parts(parts) ==
    IF parts[Len(parts)] # <<>> THEN SubSeq(parts, 1, Len(parts) - 1) ELSE parts

\* '/'.join(resolved_path) or '/'
or_root(path) == IF path = <<>> THEN <<"/">> ELSE path

\* urljoin: the path of the result when the URL has a path of its own
merge(bpath, path) ==
    or_root(join(resolved(IF Head(path) = "/" THEN split(path, "/")
                          ELSE filter_inner(base_parts(split(bpath, "/"))
                                            \o split(path, "/"))), "/"))

\* urljoin: a URL without netloc takes the one of the base
inherit(b, r) == IF r.scheme \in uses_netloc THEN b.netloc ELSE r.netloc

\* urljoin, once base and url are parsed as b and r
join_parsed(url, b, r) ==
    IF b.error \/ r.error THEN [error |-> TRUE, url |-> <<>>]
    ELSE IF r.scheme # b.scheme \/ r.scheme \notin uses_relative
    THEN [error |-> FALSE, url |-> url]
    ELSE IF r.scheme \in uses_netloc /\ r.netloc # <<>>
    THEN [error |-> FALSE, url |-> urlunparse(r)]
    ELSE [error |-> FALSE,
          url |-> urlunparse(
              IF r.path = <<>>
              THEN [r EXCEPT !.netloc = inherit(b, r), !.path = b.path,
                             !.query = IF r.query = <<>> THEN b.query ELSE r.query]
              ELSE [r EXCEPT !.netloc = inherit(b, r), !.path = merge(b.path, r.path)])]

\* urllib.parse.urljoin(base, url); error: one of the two did not parse
urljoin(base, url) ==
    IF base = <<>> THEN [error |-> FALSE, url |-> url]
    ELSE IF url = <<>> THEN [error |-> FALSE, url |-> base]
    ELSE join_parsed(url, urlparse(base, <<>>),
                     urlparse(url, urlparse(base, <<>>).scheme))

\* urllib.parse.quote of one character: letters, digits, "_.-~" and "/"
\* stay, every other character becomes % and its two hexadecimal digits.
quote_char(c) ==
    IF c \in Letters \cup Digits \cup {"_", ".", "-", "~", "/"} THEN <<c>>
    ELSE CASE c = " " -> <<"%", "2", "0">>
           [] c = "%" -> <<"%", "2", "5">>
           [] c = "+" -> <<"%", "2", "B">>
           [] c = ":" -> <<"%", "3", "A">>
           [] c = "@" -> <<"%", "4", "0">>
           [] c = "[" -> <<"%", "5", "B">>
           [] c = "]" -> <<"%", "5", "D">>

\* urllib.parse.quote(path)
RECURSIVE quote(_)
quote(s) == IF s = <<>> THEN <<>> ELSE quote_char(Head(s)) \o quote(Tail(s))

\* ------------------------------------------------------------------- URLs
\* In a crawl a URL is kept as urlparse sees it: scheme, netloc, path.
BaseNetloc == <<"example.com">>

PageUrl(i) == [scheme |-> Http, netloc |-> BaseNetloc, path |-> i]

SeedUrl == PageUrl(0)

Pages == {PageUrl(i) : i \in 0 .. NumPages - 1}

SubdomainUrl == [scheme |-> Http, netloc |-> <<"sub.example.com">>, path |-> 0]

ExternalUrl == [scheme |-> Https, netloc |-> <<"other.org">>, path |-> 0]

OffHost == {SubdomainUrl, ExternalUrl}

Urls == Pages \cup OffHost

\* crawler_app.constants.SUPPORTED_PROTOCOLS
SUPPORTED_PROTOCOLS == {Http, Https}

\* utils.get_domain_netloc, line 108: parsed_url.netloc
get_domain_netloc(u) == u.netloc

\* utils.get_domain_netloc(url): "" when urlparse raises ValueError
domain_netloc(url) ==
    IF urlparse(url, <<>>).error THEN <<>> ELSE get_domain_netloc(urlparse(url, <<>>))

\* Faulty variant: a default port is accepted whatever the scheme.
is_same_domain_AnyDefaultPort(u, base_domain_netloc) ==
    IF base_domain_netloc = <<>> THEN FALSE
    ELSE IF u.scheme \notin {Http, Https} THEN FALSE
    ELSE IF \/ u.netloc = base_domain_netloc \o <<":", "8", "0">>
            \/ u.netloc = base_domain_netloc \o <<":", "4", "4", "3">>
         THEN TRUE
    ELSE u.netloc = base_domain_netloc

\* utils.is_same_domain, lines 178-197, on the parsed URL
is_same_domain(u, base_domain_netloc) ==
    IF base_domain_netloc = <<>> THEN FALSE
    ELSE IF u.scheme \notin {Http, Https} THEN FALSE
    ELSE IF \/ (u.netloc = base_domain_netloc \o <<":", "8", "0">> /\ u.scheme = Http)
            \/ (u.netloc = base_domain_netloc \o <<":", "4", "4", "3">> /\ u.scheme = Https)
         THEN TRUE
    ELSE u.netloc = base_domain_netloc

\* utils.is_same_domain(url, base_domain_netloc): False when urlparse
\* raises ValueError
same_domain(url, base_domain_netloc) ==
    IF urlparse(url, <<>>).error THEN FALSE
    ELSE is_same_domain(urlparse(url, <<>>), base_domain_netloc)

\* Faulty variant: the fragment is written back.
rebuild_WithFragment(parsed) ==
    IF parsed.error THEN <<>>
    ELSE with_part(with_part(parsed.scheme \o ProtocolMark \o parsed.netloc
                             \o quote(parsed.path), "?", parsed.query),
                   "#", parsed.fragment)

\* normalize_url, line 147: the URL is put together again without its
\* fragment and with its path quoted
rebuild(parsed) ==
    IF parsed.error THEN <<>>
    ELSE with_part(parsed.scheme \o ProtocolMark \o parsed.netloc \o quote(parsed.path),
                   "?", parsed.query)

\* normalize_url, line 144: urlparse(abs_url)
reparse(abs_url) == IF abs_url.error THEN <<>> ELSE rebuild(urlparse(abs_url.url, <<>>))

\* utils.normalize_url(url, base_url): "" when urljoin or urlparse raises
\* ValueError
normalize_url(url, base_url) == reparse(urljoin(base_url, strip(url)))

\* ------------------------------------------------------------------ state
VARIABLES
    concurrency,      \* Crawler.concurrency
    max_pages,        \* Crawler.max_pages
    base_domain_netloc, \* Crawler.base_domain_netloc
    urls_to_visit,    \* asyncio.Queue contents, FIFO
    unfinished,       \* asyncio.Queue._unfinished_tasks (join waits for 0)
    visited_urls,     \* Crawler.visited_urls
    found_links_map,  \* Crawler.found_links_map
    semaphore,        \* free permits of Crawler.semaphore
    pc,               \* position of each worker task
    held,             \* the local `url` of each worker: <<>> or <<url>>
    cancelReq,        \* workers on which Task.cancel() was called
    cpc,              \* position of crawl()
    cancelled,        \* crawl() itself was cancelled from outside
    site,             \* environment: link set of every page served so far
    backlinks,        \* environment: which already-linked pages a page links
    offlinks,         \* environment: whether pages link to other hosts
    pushed,           \* history: number of queue puts per URL
    fetched,          \* history: number of fetch_page calls per URL
    absent,           \* history: URLs whose fetch gave no content or raised
    completed,        \* history: number of task_done calls per URL
    seen_at_fetch,    \* history: visited_urls when the worker's fetch began
    rediscovered,     \* history: links found visited at the end of a fetch
                      \*          that were not visited when it began
    call,             \* a call of one function by itself: name and arguments
    ret,              \* what that call gave: <<>> before it is made
    main,             \* cli.main: position of run_with_progress
    result,           \* cli.main: the dict `result`
    monitor,          \* monitor_crawler_progress: position, last_count, last_url
    progress,         \* CrawlerProgress: pages_crawled, latest_url
    polled            \* history: len(found_links_map) when the monitor last polled

vars == <<concurrency, max_pages, base_domain_netloc, urls_to_visit, unfinished,
          visited_urls, found_links_map, semaphore, pc, held, cancelReq, cpc,
          cancelled, site, backlinks, offlinks, pushed, fetched, absent,
          completed, seen_at_fetch, rediscovered, call, ret, main, result,
          monitor, progress, polled>>

\* Faulty variant: one worker too many is created.
Workers_OneMore == 1 .. concurrency + 1

\* crawl(), line 137: one worker task for each of range(self.concurrency)
Workers == 1 .. concurrency

EmptyMap == [u \in {} |-> {}]

BackStyles == {"none", "self", "seed", "all"}

\* No function is called by itself during a crawl.
NoCall == [fn |-> "none"]

\* The variables of the command line.
cli == <<main, result, monitor, progress, polled>>

\* CrawlerProgress.__init__: nothing crawled yet
NoProgress == [pages_crawled |-> 0, latest_url |-> <<>>]

\* monitor_crawler_progress, lines 123-124: last_count = 0, last_url = ""
Monitor(at) == [pc |-> at, last_count |-> 0, last_url |-> <<>>]

\* The crawler is used without the command line.
NoCli ==
    /\ main = "off"
    /\ result = [u \in {} |-> {}]
    /\ monitor = Monitor("none")
    /\ progress = NoProgress
    /\ polled = <<>>

\* Crawler.__init__ after validation: the seed is queued and visited.
Init ==
    /\ call = NoCall
    /\ ret = <<>>
    /\ NoCli
    /\ concurrency \in 1 .. MaxConcurrency
    /\ max_pages \in 1 .. MaxBudget
    /\ base_domain_netloc = get_domain_netloc(SeedUrl)
    /\ urls_to_visit = <<SeedUrl>>
    /\ unfinished = 1
    /\ visited_urls = {SeedUrl}
    /\ found_links_map = EmptyMap
    /\ semaphore = concurrency
    /\ pc = [w \in 1 .. concurrency |-> "unborn"]
    /\ held = [w \in 1 .. concurrency |-> <<>>]
    /\ cancelReq = {}
    /\ cpc = "init"
    /\ cancelled = FALSE
    /\ site = EmptyMap
    /\ backlinks \in BackStyles
    /\ offlinks \in BOOLEAN
    /\ pushed = [u \in Urls |-> IF u = SeedUrl THEN 1 ELSE 0]
    /\ fetched = [u \in Urls |-> 0]
    /\ absent = {}
    /\ completed = [u \in Urls |-> 0]
    /\ seen_at_fetch = [w \in 1 .. concurrency |-> {}]
    /\ rediscovered = {}


\* ------------------------------------------------------------ environment
\* Pages that some served page has linked (or the seed): they have a name.
Named == {SeedUrl} \cup ((UNION {site[p] : p \in DOMAIN site}) \cap Pages)

\* The j lowest-numbered pages nobody has linked yet.
FirstFresh(j) ==
    {p \in Pages \ Named :
        Cardinality({r \in Pages \ Named : r.path < p.path}) < j}

\* The links of page u to pages that were linked before u was served.
BackLinks(u) ==
    CASE backlinks = "none" -> {}
      [] backlinks = "self" -> {u}
      [] backlinks = "seed" -> {SeedUrl}
      [] backlinks = "all"  -> Named

\* What extract_links can return for page u, served for the first time.
\* extract_links keeps http and https links only (parser.py, line 64).
LinkChoices(u) ==
    {{l \in FirstFresh(j) \cup BackLinks(u) \cup (IF offlinks THEN OffHost ELSE {}) :
        l.scheme \in SUPPORTED_PROTOCOLS} : j \in 0 .. MaxNewLinks}

\* The orders in which `for link in links` (line 245) can meet the elements
\* of a set.
Orderings(S) ==
    {s \in [1 .. Cardinality(S) -> S] :
        \A i, j \in 1 .. Cardinality(S) : i # j => s[i] # s[j]}

\* ------------------------------------------------------ Crawler internals
\* Faulty variant: the budget counts as reached one page early.
BudgetReached_OneEarly(flm, mp) == Cardinality(DOMAIN flm) + 1 >= mp

\* Faulty variant: the budget test is off by one.
BudgetReached_OffByOne(flm, mp) == Cardinality(DOMAIN flm) > mp

\* _worker, line 176: len(self.found_links_map) >= self.max_pages
BudgetReached(flm, mp) == Cardinality(DOMAIN flm) >= mp

\* Faulty variant: the visited test is missing.
ShouldEnqueue_NoVisitedCheck(link, vis, base) == is_same_domain(link, base)

\* Faulty variant: the same-domain test is missing.
ShouldEnqueue_AnyHost(link, vis, base) == link \notin vis

\* _process_links, line 249
ShouldEnqueue(link, vis, base) == is_same_domain(link, base) /\ link \notin vis

\* Faulty variant: a link is put on the queue without being marked visited.
ProcessLinks_NoMark(ord, vis, added, base) ==
    [visited |-> vis,
     added |-> SelectSeq(ord, LAMBDA l : ShouldEnqueue(l, vis, base))]

\* Faulty variant: the loop is left before its last new link.
ProcessLinks_AllButLast(ord, vis, added, base) ==
    [visited |-> vis \cup {ord[i] : i \in {k \in 1 .. Len(ord) - 1 :
                                            ShouldEnqueue(ord[k], vis, base)}},
     added |-> SelectSeq(SubSeq(ord, 1, Len(ord) - 1),
                         LAMBDA l : ShouldEnqueue(l, vis, base))]

\* Faulty variant: every new link is put on the queue twice.
ProcessLinks_PutTwice(ord, vis, added, base) ==
    [visited |-> vis \cup {ord[i] : i \in {k \in 1 .. Len(ord) :
                                            ShouldEnqueue(ord[k], vis, base)}},
     added |-> SelectSeq(ord, LAMBDA l : ShouldEnqueue(l, vis, base))
               \o SelectSeq(ord, LAMBDA l : ShouldEnqueue(l, vis, base))]

\* Faulty variant: the loop ends after the first link it enqueues.
ProcessLinks_FirstOnly(ord, vis, added, base) ==
    IF ord = <<>> THEN [visited |-> vis, added |-> added]
    ELSE [visited |-> vis \cup {Head(ord)}, added |-> Append(added, Head(ord))]

\* _process_links: walks the links in the order `ord`; returns the visited
\* set and the links put on the queue, in put order.
RECURSIVE ProcessLinks(_, _, _, _)
ProcessLinks(ord, vis, added, base) ==
    IF ord = <<>> THEN [visited |-> vis, added |-> added]
    ELSE LET link == Head(ord) IN
         IF ShouldEnqueue(link, vis, base)
         THEN ProcessLinks(Tail(ord), vis \cup {link}, Append(added, link), base)
         ELSE ProcessLinks(Tail(ord), vis, added, base)

\* The site serves page u with these links from now on.
Serve(st, u, links) ==
    [k \in DOMAIN st \cup {u} |-> IF k = u THEN links ELSE st[k]]

\* Faulty variant: every page is recorded under the seed's key, as if all
\* fetches were redirected there.
Record_UnderSeed(flm, u, links) ==
    [k \in DOMAIN flm \cup {SeedUrl} |-> IF k = SeedUrl THEN links ELSE flm[k]]

\* Faulty variant: the map is started afresh with each page.
Record_Afresh(flm, u, links) == [k \in {u} |-> links]

\* Faulty variant: the page is recorded without its links.
Record_NoLinks(flm, u, links) ==
    [k \in DOMAIN flm \cup {u} |-> IF k = u THEN {} ELSE flm[k]]

\* Faulty variant: only the links of the page's own host are recorded.
Record_SameHostOnly(flm, u, links) ==
    [k \in DOMAIN flm \cup {u} |->
        IF k = u THEN {l \in links : l.netloc = u.netloc} ELSE flm[k]]

\* _worker, line 195: self.found_links_map[fetched_url] = links
Record(flm, u, links) ==
    [k \in DOMAIN flm \cup {u} |-> IF k = u THEN links ELSE flm[k]]

\* Queue.task_done on the item that held URL u
TaskDone(st, u) ==
    [st EXCEPT !.unf = @ - 1, !.comp = [@ EXCEPT ![u] = @ + 1]]

\* Faulty variant: the discarded items are not marked done.
EmptyQueue_NoTaskDone(st) == [st EXCEPT !.q = <<>>]

\* _empty_queue: get_nowait + task_done until the queue is empty
RECURSIVE EmptyQueue(_)
EmptyQueue(st) ==
    IF st.q = <<>> THEN st
    ELSE EmptyQueue(TaskDone([st EXCEPT !.q = Tail(@)], Head(st.q)))

\* _worker, lines 188-190: async with self.semaphore, then fetch_page(url).
\* With no free permit the worker waits for one.
Acquire(st) ==
    IF st.sem > 0 THEN [st EXCEPT !.sem = @ - 1, !.pcw = "fetch"]
    ELSE [st EXCEPT !.pcw = "acquire"]

\* Faulty variant: the budget is not looked at.
LoopTop_NoBudget(st, flm, mp) ==
    IF st.q = <<>>
    THEN [st EXCEPT !.pcw = "get", !.heldw = <<>>]
    ELSE Acquire([st EXCEPT !.q = Tail(@), !.heldw = <<Head(st.q)>>])

\* Faulty variant: the worker takes the URL that was put last.
LoopTop_TakesLast(st, flm, mp) ==
    IF BudgetReached(flm, mp)
    THEN [EmptyQueue(st) EXCEPT !.pcw = "exited", !.heldw = <<>>]
    ELSE IF st.q = <<>>
    THEN [st EXCEPT !.pcw = "get", !.heldw = <<>>]
    ELSE Acquire([st EXCEPT !.q = SubSeq(@, 1, Len(@) - 1),
                            !.heldw = <<st.q[Len(st.q)]>>])

\* Faulty variant: with the budget reached the worker leaves the queue as
\* it is.
LoopTop_NoDrain(st, flm, mp) ==
    IF BudgetReached(flm, mp)
    THEN [st EXCEPT !.pcw = "exited", !.heldw = <<>>]
    ELSE IF st.q = <<>>
    THEN [st EXCEPT !.pcw = "get", !.heldw = <<>>]
    ELSE Acquire([st EXCEPT !.q = Tail(@), !.heldw = <<Head(st.q)>>])

\* _worker, lines 173-190: from the top of the loop to the next suspension.
\* st = [q, unf, sem, comp, pcw, heldw]: the queue, its unfinished count,
\* the free permits, the task_done history, and this worker's pc and url.
LoopTop(st, flm, mp) ==
    IF BudgetReached(flm, mp)
    THEN [EmptyQueue(st) EXCEPT !.pcw = "exited", !.heldw = <<>>]
    ELSE IF st.q = <<>>
    THEN [st EXCEPT !.pcw = "get", !.heldw = <<>>]
    ELSE Acquire([st EXCEPT !.q = Tail(@), !.heldw = <<Head(st.q)>>])

\* The shared state a worker step starts from.
Now == [q |-> urls_to_visit, unf |-> unfinished, sem |-> semaphore,
        comp |-> completed, pcw |-> "", heldw |-> <<>>]

\* Writes the worker's step back to the state.
Commit(w, st) ==
    /\ urls_to_visit' = st.q
    /\ unfinished' = st.unf
    /\ semaphore' = st.sem
    /\ completed' = st.comp
    /\ pc' = [pc EXCEPT ![w] = st.pcw]
    /\ held' = [held EXCEPT ![w] = st.heldw]
    /\ fetched' = IF st.pcw = "fetch"
                  THEN [fetched EXCEPT ![st.heldw[1]] = @ + 1]
                  ELSE fetched
    /\ seen_at_fetch' = [seen_at_fetch EXCEPT
                            ![w] = IF st.pcw = "fetch" THEN visited_urls' ELSE {}]

\* Faulty variant: the failure path keeps the semaphore permit.
AfterFailure_KeepsPermit(st, u) == TaskDone(st, u)

\* Faulty variant: the failure path skips task_done.
AfterFailure_NoTaskDone(st, u) == [st EXCEPT !.sem = @ + 1]

\* Faulty variant: the failure path puts the URL back on the queue.
AfterFailure_Requeue(st, u) ==
    TaskDone([st EXCEPT !.sem = @ + 1, !.q = Append(@, u), !.unf = @ + 1], u)

\* _worker, lines 198-204: no content, or the handler of line 200; the item
\* is marked done.  The semaphore block is left first.
AfterFailure(st, u) == TaskDone([st EXCEPT !.sem = @ + 1], u)

\* Faulty variant: the success path skips task_done.
AfterRecord_NoTaskDone(st, u, added) ==
    [st EXCEPT !.q = @ \o added, !.unf = @ + Len(added), !.sem = @ + 1]

\* _worker, lines 192-204: the page is recorded as flm, its links were put
\* on the queue in the order `added`; the item is marked done.
AfterRecord(st, u, added) ==
    TaskDone([st EXCEPT !.q = @ \o added, !.unf = @ + Len(added), !.sem = @ + 1], u)

\* What no step of a crawl changes: the job's parameters, the site's link
\* pattern, and the variables of the single calls.
job == <<concurrency, max_pages, base_domain_netloc, backlinks, offlinks, call, ret,
         cli>>

\* ---------------------------------------------------------------- actions
\* crawl(), lines 137-142: create the worker tasks, wait on join().
CrawlStart ==
    /\ cpc = "init"
    /\ pc' = [w \in Workers |-> "new"]
    /\ cpc' = IF unfinished = 0 THEN "gather" ELSE "join"
    /\ cancelReq' = IF unfinished = 0 THEN Workers ELSE cancelReq
    /\ UNCHANGED <<job, urls_to_visit, unfinished, visited_urls, found_links_map,
                   semaphore, held, cancelled, site, pushed, fetched, absent,
                   completed, seen_at_fetch, rediscovered>>

\* A worker task runs for the first time.  The event loop runs ready tasks
\* in the order they were created (line 137).
WorkerStart(w) ==
    /\ pc[w] = "new"
    /\ w \notin cancelReq
    /\ \A v \in Workers : v < w => pc[v] # "new"
    /\ UNCHANGED <<job, visited_urls, found_links_map, cancelReq, cpc, cancelled,
                   site, pushed, absent, rediscovered>>
    /\ Commit(w, LoopTop(Now, found_links_map, max_pages))

\* A worker suspended in Queue.get() finds an item (line 183), or one
\* waiting for a permit gets it (line 188); it goes on to fetch_page.
WorkerWake(w) ==
    /\ w \notin cancelReq
    /\ \/ pc[w] = "get" /\ urls_to_visit # <<>>
       \/ pc[w] = "acquire" /\ semaphore > 0
    /\ UNCHANGED <<job, visited_urls, found_links_map, cancelReq, cpc, cancelled,
                   site, pushed, absent, rediscovered>>
    /\ Commit(w, IF pc[w] = "get"
                 THEN Acquire([Now EXCEPT !.q = Tail(@),
                                          !.heldw = <<Head(urls_to_visit)>>])
                 ELSE Acquire([Now EXCEPT !.heldw = held[w]]))

\* fetch_page returns HTML (lines 192-197, 204, then the loop top).
FetchHtml(w) ==
    /\ pc[w] = "fetch"
    /\ w \notin cancelReq
    /\ LET u == held[w][1] IN
       \E links \in (IF u \in DOMAIN site THEN {site[u]} ELSE LinkChoices(u)) :
       \* the loop of line 245 meets the links that pass line 249 in some
       \* order; a link that fails the test changes nothing
       \E ord \in Orderings({l \in links :
                               ShouldEnqueue(l, visited_urls, base_domain_netloc)}) :
          LET flm == Record(found_links_map, u, links)
              pl  == ProcessLinks(ord, visited_urls, <<>>, base_domain_netloc)
          IN /\ site' = Serve(site, u, links)
             /\ found_links_map' = flm
             /\ visited_urls' = pl.visited
             /\ pushed' = [x \in Urls |->
                             pushed[x] + Cardinality({i \in 1 .. Len(pl.added) :
                                                        pl.added[i] = x})]
             /\ rediscovered' = rediscovered \cup
                    {l \in links : /\ is_same_domain(l, base_domain_netloc)
                                   /\ l \in visited_urls \ seen_at_fetch[w]}
             /\ Commit(w, LoopTop(AfterRecord(Now, u, pl.added), flm, max_pages))
    /\ UNCHANGED <<job, cancelReq, cpc, cancelled, absent>>

\* Faulty variant: a URL without content is recorded with no links, and so
\* counts against the budget.
FetchFails_Records(w) ==
    /\ pc[w] = "fetch"
    /\ w \notin cancelReq
    /\ absent' = absent \cup {held[w][1]}
    /\ found_links_map' = Record(found_links_map, held[w][1], {})
    /\ UNCHANGED <<job, visited_urls, cancelReq, cpc, cancelled, site, pushed,
                   rediscovered>>
    /\ Commit(w, LoopTop(AfterFailure(Now, held[w][1]),
                         Record(found_links_map, held[w][1], {}), max_pages))

\* fetch_page returns no content (None or ''), or fetch_page / extract_links
\* raises and line 200 catches it; then line 204 and the loop top.
FetchFails(w) ==
    /\ pc[w] = "fetch"
    /\ w \notin cancelReq
    /\ \E outcome \in {"none", "empty", "raise"} :
          absent' = absent \cup {held[w][1]}
    /\ UNCHANGED <<job, visited_urls, found_links_map, cancelReq, cpc, cancelled,
                   site, pushed, rediscovered>>
    /\ Commit(w, LoopTop(AfterFailure(Now, held[w][1]), found_links_map, max_pages))

\* Faulty variant: crawl() goes on as soon as the queue is empty.
JoinReturn_QueueEmpty ==
    /\ cpc = "join"
    /\ urls_to_visit = <<>>
    /\ cpc' = "gather"
    /\ cancelReq' = Workers
    /\ UNCHANGED <<job, urls_to_visit, unfinished, visited_urls, found_links_map,
                   semaphore, pc, held, cancelled, site, pushed, fetched, absent,
                   completed, seen_at_fetch, rediscovered>>

\* Faulty variant: join() returns at once, whatever is unfinished.
JoinReturn_NoBarrier ==
    /\ cpc = "join"
    /\ cpc' = "gather"
    /\ cancelReq' = Workers
    /\ UNCHANGED <<job, urls_to_visit, unfinished, visited_urls, found_links_map,
                   semaphore, pc, held, cancelled, site, pushed, fetched, absent,
                   completed, seen_at_fetch, rediscovered>>

\* join() returns (line 142): every put has had its task_done.
\* finally: cancel every worker, then wait in gather().
JoinReturn ==
    /\ cpc = "join"
    /\ unfinished = 0
    /\ cpc' = "gather"
    /\ cancelReq' = Workers
    /\ UNCHANGED <<job, urls_to_visit, unfinished, visited_urls, found_links_map,
                   semaphore, pc, held, cancelled, site, pushed, fetched, absent,
                   completed, seen_at_fetch, rediscovered>>

\* Faulty variant: the finally block does not cancel the workers.
ExternalCancel_NoWorkerCancel ==
    /\ cpc = "join"
    /\ cpc' = "gather"
    /\ cancelled' = TRUE
    /\ UNCHANGED <<job, urls_to_visit, unfinished, visited_urls, found_links_map,
                   semaphore, pc, held, cancelReq, site, pushed, fetched, absent,
                   completed, seen_at_fetch, rediscovered>>

\* crawl() is cancelled while it waits in join() (lines 144-153).
ExternalCancel ==
    /\ cpc = "join"
    /\ cpc' = "gather"
    /\ cancelled' = TRUE
    /\ cancelReq' = Workers
    /\ UNCHANGED <<job, urls_to_visit, unfinished, visited_urls, found_links_map,
                   semaphore, pc, held, site, pushed, fetched, absent, completed,
                   seen_at_fetch, rediscovered>>

\* Faulty variant: a worker cancelled inside fetch_page keeps its permit.
WorkerCancelled_KeepsPermit(w) ==
    /\ w \in cancelReq
    /\ pc[w] \in {"new", "get", "acquire", "fetch"}
    /\ \A v \in Workers : v < w => pc[v] = "exited"
    /\ pc' = [pc EXCEPT ![w] = "exited"]
    /\ held' = [held EXCEPT ![w] = <<>>]
    /\ seen_at_fetch' = [seen_at_fetch EXCEPT ![w] = {}]
    /\ UNCHANGED <<job, urls_to_visit, unfinished, visited_urls, found_links_map,
                   semaphore, cancelReq, cpc, cancelled, site, pushed, fetched,
                   absent, completed, rediscovered>>

\* Faulty variant: a worker cancelled inside fetch_page marks its URL done.
WorkerCancelled_MarksDone(w) ==
    /\ w \in cancelReq
    /\ pc[w] \in {"new", "get", "acquire", "fetch"}
    /\ \A v \in Workers : v < w => pc[v] = "exited"
    /\ pc' = [pc EXCEPT ![w] = "exited"]
    /\ held' = [held EXCEPT ![w] = <<>>]
    /\ semaphore' = IF pc[w] = "fetch" THEN semaphore + 1 ELSE semaphore
    /\ unfinished' = IF pc[w] = "fetch" THEN unfinished - 1 ELSE unfinished
    /\ completed' = IF pc[w] = "fetch"
                    THEN [completed EXCEPT ![held[w][1]] = @ + 1]
                    ELSE completed
    /\ seen_at_fetch' = [seen_at_fetch EXCEPT ![w] = {}]
    /\ UNCHANGED <<job, urls_to_visit, visited_urls, found_links_map,
                   cancelReq, cpc, cancelled, site, pushed, fetched, absent,
                   rediscovered>>

\* A cancelled worker gets CancelledError at its await (lines 205-208):
\* it leaves the semaphore block, skips task_done and breaks.  The workers
\* are cancelled, and so resumed, in list order (lines 148-149).
WorkerCancelled(w) ==
    /\ w \in cancelReq
    /\ pc[w] \in {"new", "get", "acquire", "fetch"}
    /\ \A v \in Workers : v < w => pc[v] = "exited"
    /\ pc' = [pc EXCEPT ![w] = "exited"]
    /\ held' = [held EXCEPT ![w] = <<>>]
    /\ semaphore' = IF pc[w] = "fetch" THEN semaphore + 1 ELSE semaphore
    /\ seen_at_fetch' = [seen_at_fetch EXCEPT ![w] = {}]
    /\ UNCHANGED <<job, urls_to_visit, unfinished, visited_urls, found_links_map,
                   cancelReq, cpc, cancelled, site, pushed, fetched, absent,
                   completed, rediscovered>>

\* Faulty variant: crawl() returns without waiting for the workers to end.
CrawlReturn_NoGather ==
    /\ cpc = "gather"
    /\ cpc' = "returned"
    /\ UNCHANGED <<job, urls_to_visit, unfinished, visited_urls, found_links_map,
                   semaphore, pc, held, cancelReq, cancelled, site, pushed, fetched,
                   absent, completed, seen_at_fetch, rediscovered>>

\* gather() returns once every worker has ended; crawl() returns the map.
CrawlReturn ==
    /\ cpc = "gather"
    /\ \A w \in Workers : pc[w] = "exited"
    /\ cpc' = "returned"
    /\ UNCHANGED <<job, urls_to_visit, unfinished, visited_urls, found_links_map,
                   semaphore, pc, held, cancelReq, cancelled, site, pushed, fetched,
                   absent, completed, seen_at_fetch, rediscovered>>

\* The steps of the tasks themselves.
Run ==
    \/ CrawlStart
    \/ \E w \in Workers : WorkerStart(w)
    \/ \E w \in Workers : WorkerWake(w)
    \/ \E w \in Workers : FetchHtml(w)
    \/ \E w \in Workers : FetchFails(w)
    \/ JoinReturn
    \/ \E w \in Workers : WorkerCancelled(w)
    \/ CrawlReturn

Next == Run \/ ExternalCancel

Spec == Init /\ [][Next]_vars

\* Crawler.__init__ checks the base URL only (lines 86-92): concurrency is
\* stored as given (line 95), and asyncio.Semaphore accepts 0 (line 104).
InitAnyConcurrency ==
    /\ call = NoCall
    /\ ret = <<>>
    /\ NoCli
    /\ concurrency \in 0 .. MaxConcurrency
    /\ max_pages \in 1 .. MaxBudget
    /\ base_domain_netloc = get_domain_netloc(SeedUrl)
    /\ urls_to_visit = <<SeedUrl>>
    /\ unfinished = 1
    /\ visited_urls = {SeedUrl}
    /\ found_links_map = EmptyMap
    /\ semaphore = concurrency
    /\ pc = [w \in 1 .. concurrency |-> "unborn"]
    /\ held = [w \in 1 .. concurrency |-> <<>>]
    /\ cancelReq = {}
    /\ cpc = "init"
    /\ cancelled = FALSE
    /\ site = EmptyMap
    /\ backlinks \in BackStyles
    /\ offlinks \in BOOLEAN
    /\ pushed = [u \in Urls |-> IF u = SeedUrl THEN 1 ELSE 0]
    /\ fetched = [u \in Urls |-> 0]
    /\ absent = {}
    /\ completed = [u \in Urls |-> 0]
    /\ seen_at_fetch = [w \in 1 .. concurrency |-> {}]
    /\ rediscovered = {}

\* crawl() on an engine built with any concurrency the constructor accepts.
AnySpec == InitAnyConcurrency /\ [][Next]_vars

\* crawl() is called again on the engine after it returned (lines 137-142):
\* new worker tasks over the queue, the visited set and the map as the
\* earlier call left them.  join() does not suspend when nothing is
\* unfinished.
CrawlAgain ==
    /\ cpc = "returned"
    /\ pc' = [w \in Workers |-> "new"]
    /\ cpc' = IF unfinished = 0 THEN "gather" ELSE "join"
    /\ cancelReq' = IF unfinished = 0 THEN Workers ELSE {}
    /\ cancelled' = FALSE
    /\ UNCHANGED <<job, urls_to_visit, unfinished, visited_urls, found_links_map,
                   semaphore, held, site, pushed, fetched, absent, completed,
                   seen_at_fetch, rediscovered>>

AgainNext == Next \/ CrawlAgain

\* An engine on which crawl() may be called any number of times in turn.
AgainSpec == Init /\ [][AgainNext]_vars

\* The event loop runs every ready task and every fetch_page call returns;
\* nothing obliges the caller to cancel crawl().
FairSpec == Spec /\ WF_vars(Run)


\* ----------------------------------------------------------- single calls
\* The functions of utils.py and the constructor are also taken one call at
\* a time: `call` holds the arguments, an action makes the call and puts
\* what it gives into `ret`.  The command line takes no part.

\* crawler_app.constants.HTTP_SUPPORTED_SUCCESS_CODES
HTTP_SUPPORTED_SUCCESS_CODES == {200}

\* All the 2xx codes the replies below use (httpx: response.is_success).
Any2xx == {200, 201, 204, 206}

\* "text/html"
TextHtml == <<"t", "e", "x", "t", "/", "h", "t", "m", "l">>

\* Faulty variant: any 2xx status code is taken for content.
fetch_page_Any2xx(url, reply) ==
    IF reply.kind = "response"
    THEN IF reply.status_code \notin Any2xx
         THEN [url |-> url, html |-> <<>>, raised |-> FALSE]
         ELSE IF ~Contains(lower(reply.content_type), TextHtml)
         THEN [url |-> url, html |-> <<>>, raised |-> FALSE]
         ELSE [url |-> url, html |-> <<reply.text>>, raised |-> FALSE]
    ELSE [url |-> url, html |-> <<>>, raised |-> FALSE]

\* utils.fetch_page(url, timeout).  `reply` is what client.get(url) does:
\* it returns a response (status code, content-type header, body, and the
\* URL the response came from once the redirects were followed), or it
\* raises.  html is <<>> for None and <<text>> for a body.
fetch_page(url, reply) ==
    IF reply.kind = "response"
    THEN IF reply.status_code \notin HTTP_SUPPORTED_SUCCESS_CODES
         THEN [url |-> url, html |-> <<>>, raised |-> FALSE]            \* line 61
         ELSE IF ~Contains(lower(reply.content_type), TextHtml)
         THEN [url |-> url, html |-> <<>>, raised |-> FALSE]            \* line 70
         ELSE [url |-> url, html |-> <<reply.text>>, raised |-> FALSE]  \* line 73
    ELSE IF reply.kind \in {"TimeoutException", "RequestError"}
    THEN [url |-> url, html |-> <<>>, raised |-> FALSE]                 \* line 77
    ELSE [url |-> url, html |-> <<>>, raised |-> FALSE]                 \* line 81

\* Faulty variant: the worker tests `html is not None`.
truthy_NotNone(html) == html # <<>>

\* _worker, line 192: `if html:`, false for None and for the empty string
truthy(html) == html # <<>> /\ html[1] # <<>>

\* parser.extract_links(html_content, base_url) for the bodies used here:
\* the empty document (lines 36-38) and a document whose anchor has no href
\* (line 46) both give the empty set.
extract_links(html_content, base_url) == {}

\* _worker, lines 183-204, for a worker that took `url` from the queue of
\* the engine `self` and got `page` from fetch_page: the engine afterwards
\* and the number of task_done calls.  _process_links has nothing to put
\* for an empty link set.
worker_iteration(self, url, page) ==
    IF truthy(page.html)
    THEN [found_links_map |-> Record(self.found_links_map, page.url,
                                     extract_links(page.html[1], page.url)),
          visited_urls |-> self.visited_urls,
          urls_to_visit |-> Tail(self.urls_to_visit),
          task_done |-> 1]
    ELSE [found_links_map |-> self.found_links_map,
          visited_urls |-> self.visited_urls,
          urls_to_visit |-> Tail(self.urls_to_visit),
          task_done |-> 1]

\* Faulty variant: the seed is queued but not marked visited.
construct_SeedNotVisited(b, n, conc, mp) ==
    IF n = <<>>
    THEN [raised |-> "InvalidURLError",
          self |-> [base_url |-> b, base_domain_netloc |-> n]]
    ELSE [raised |-> "none",
          self |-> [base_url |-> b, base_domain_netloc |-> n,
                    concurrency |-> conc, max_pages |-> mp,
                    urls_to_visit |-> <<b>>, visited_urls |-> {},
                    found_links_map |-> EmptyMap, semaphore |-> conc]]

\* Crawler.__init__, lines 87-109, with b the normalized base URL and n its
\* netloc: the exception raised ("none": it returns) and the attributes of
\* self that were set by then.
construct(b, n, conc, mp) ==
    IF n = <<>>                                                         \* line 91
    THEN [raised |-> "InvalidURLError",
          self |-> [base_url |-> b, base_domain_netloc |-> n]]
    ELSE [raised |-> "none",
          self |-> [base_url |-> b, base_domain_netloc |-> n,
                    concurrency |-> conc, max_pages |-> mp,
                    urls_to_visit |-> <<b>>, visited_urls |-> {b},
                    found_links_map |-> EmptyMap, semaphore |-> conc]]

\* Faulty variant: the protocol is compared as written, not lower-cased.
Crawler_NoLower(base_url, conc, mp) ==
    IF ~Contains(base_url, ProtocolMark)
    THEN [raised |-> "MissingProtocolError", self |-> EmptyMap]
    ELSE IF Before(base_url, ProtocolMark) \notin SUPPORTED_PROTOCOLS
    THEN [raised |-> "InvalidProtocolError", self |-> EmptyMap]
    ELSE construct(normalize_url(base_url, base_url),
                   domain_netloc(normalize_url(base_url, base_url)), conc, mp)

\* Crawler.__init__(base_url, concurrency, timeout, max_pages), lines 72-109
Crawler(base_url, conc, mp) ==
    IF ~Contains(base_url, ProtocolMark)                                \* line 73
    THEN [raised |-> "MissingProtocolError", self |-> EmptyMap]
    ELSE IF lower(Before(base_url, ProtocolMark)) \notin SUPPORTED_PROTOCOLS \* 79-80
    THEN [raised |-> "InvalidProtocolError", self |-> EmptyMap]
    ELSE construct(normalize_url(base_url, base_url),                   \* line 87
                   domain_netloc(normalize_url(base_url, base_url)),    \* line 88
                   conc, mp)

\* ---- the arguments of the calls
\* Base URLs for the constructor: scheme text, mark, authority, rest.
SchemeTexts ==
    {<<>>, <<"h", "t", "t", "p">>, <<"h", "t", "t", "p", "s">>,
     <<"H", "T", "T", "P">>, <<"H", "t", "t", "p", "s">>, <<"f", "t", "p">>,
     <<" ", "h", "t", "t", "p">>}

MarkTexts ==
    {<<":", "/", "/">>, <<":", "/">>, <<>>}

AuthorityTexts ==
    {<<>>, <<"h">>, <<"[", "h">>, <<"h", ":", "8", "0">>}

RestTexts ==
    {<<>>, <<"/">>, <<"/", "a">>, <<"#", "f">>, <<"?", "q">>}

CrawlerCalls ==
    {[fn |-> "Crawler", base_url |-> s \o m \o a \o r, concurrency |-> c] :
        s \in SchemeTexts, m \in MarkTexts, a \in AuthorityTexts, r \in RestTexts,
        c \in 0 .. MaxConcurrency}

\* URLs for is_same_domain, put together from a scheme, "//" or nothing,
\* an authority and a rest that begins a path or a query.
UrlSchemes ==
    {<<>>, <<"h", "t", "t", "p">>, <<"h", "t", "t", "p", "s">>,
     <<"H", "T", "T", "P">>, <<"f", "t", "p">>}

UrlAuthorities ==
    {<<>>, <<"h">>, <<"h", ":", "8", "0">>, <<"h", ":", "4", "4", "3">>,
     <<"h", ":", "8", "0", "8", "0">>, <<"w", ".", "h">>, <<"H">>,
     <<"u", "@", "h">>, <<"[", "h">>}

UrlRests ==
    {<<>>, <<"/", "a">>, <<"?", "q">>}

BaseNetlocs ==
    {<<>>, <<"h">>, <<"w", ".", "h">>, <<"h", ":", "8", "0">>,
     <<"h", ":", "4", "4", "3">>, <<"[", "h">>}

UrlOf(scheme, slashes, authority, rest) ==
    (IF scheme = <<>> THEN <<>> ELSE scheme \o <<":">>)
    \o (IF slashes THEN <<"/", "/">> ELSE <<>>) \o authority \o rest

SameDomainCalls ==
    {[fn |-> "is_same_domain", scheme |-> s, slashes |-> m, authority |-> a,
      url |-> UrlOf(s, m, a, r), base_domain_netloc |-> b] :
        s \in UrlSchemes, m \in BOOLEAN, a \in UrlAuthorities, r \in UrlRests,
        b \in BaseNetlocs}

\* URLs and base URLs for normalize_url.
LinkTexts ==
    {<<>>, <<"a">>, <<"/", "a">>, <<".", ".", "/", "b">>,
     <<"/", "a", "/", ".", ".", "/", "b">>, <<"/", ".", ".", "/", "a">>,
     <<".">>, <<"a", "/", "/", "b">>, <<"#", "f">>, <<"?", "q">>,
     <<"a", "?", "q", "#", "f">>, <<" ", "a", " ">>, <<"a", " ", "b">>,
     <<"%", "4", "1">>, <<"/", "/", "h", "/", "a">>,
     <<"/", "/", "w", ".", "h">>, <<"x", ":", "a">>,
     <<"h", "t", "t", "p", ":", "/", "/", "[", "h">>,
     <<"h", "t", "t", "p", ":", "/", "/", "h", "/", "a", "#", "f">>,
     <<"H", "T", "T", "P", ":", "/", "/", "H", "/", "A">>,
     <<"h", "t", "t", "p", "s", ":", "/", "/", "h", ":", "4", "4", "3">>,
     <<"h", "t", "t", "p", ":", "/", "/", "h", "/", "a", "/", ".", ".", "/", "b">>}

BaseTexts ==
    {<<>>, <<"h">>, <<"/", "x", "/">>, <<"/", "/", "h", "/", "x">>,
     <<"h", "t", "t", "p", ":", "/", "/", "h">>,
     <<"h", "t", "t", "p", ":", "/", "/", "h", "/", "x", "/">>,
     <<"h", "t", "t", "p", ":", "/", "/", "h", "/", "p", "?", "z", "#", "k">>,
     <<"h", "t", "t", "p", "s", ":", "/", "/", "h", "/", "x", "/", "y">>,
     <<"h", "t", "t", "p", ":", "/", "/", "h", "/", "a", " ", "b">>,
     <<"h", "t", "t", "p", ":", "/", "/", "[", "h">>, <<"x", ":", "y">>}

NormalizeCalls ==
    {[fn |-> "normalize_url", url |-> u, base_url |-> b] :
        u \in LinkTexts, b \in BaseTexts}

\* Requests and replies for fetch_page.
FetchUrls ==
    {<<"h", "t", "t", "p", ":", "/", "/", "h", "/", "a">>,
     <<"h", "t", "t", "p", "s", ":", "/", "/", "h", "/", "a">>}

StatusCodes == {200, 201, 204, 206, 304, 404, 500}

ContentTypes ==
    {<<>>, <<"t", "e", "x", "t", "/", "h", "t", "m", "l">>,
     <<"t", "e", "x", "t", "/", "h", "t", "m", "l", ";", " ", "c", "h", "a", "r", "s", "e", "t", "=", "u", "t", "f", "-", "8">>,
     <<"T", "E", "X", "T", "/", "H", "T", "M", "L">>,
     <<"t", "e", "x", "t", "/", "p", "l", "a", "i", "n">>,
     <<"a", "p", "p", "l", "i", "c", "a", "t", "i", "o", "n", "/", "j", "s", "o", "n">>,
     <<"a", "p", "p", "l", "i", "c", "a", "t", "i", "o", "n", "/", "x", "h", "t", "m", "l", "+", "x", "m", "l">>}

Bodies ==
    {<<>>, <<"<", "a", ">">>}

Replies ==
    [kind : {"response"}, status_code : StatusCodes, content_type : ContentTypes,
     text : Bodies, url : FetchUrls]
    \cup {[kind |-> k] : k \in {"TimeoutException", "RequestError", "Exception"}}

FetchCalls == {[fn |-> "fetch_page", url |-> u, reply |-> r] : u \in FetchUrls, r \in Replies}

\* One iteration of _worker on the seed, with the reply its fetch gets.
WorkerCalls == {[fn |-> "_worker", url |-> u, reply |-> r] : u \in FetchUrls, r \in Replies}

Calls ==
    CrawlerCalls \cup SameDomainCalls \cup NormalizeCalls \cup FetchCalls
        \cup WorkerCalls

\* The variables of a crawl.
crawl == <<concurrency, max_pages, base_domain_netloc, urls_to_visit, unfinished,
           visited_urls, found_links_map, semaphore, pc, held, cancelReq, cpc,
           cancelled, site, backlinks, offlinks, pushed, fetched, absent,
           completed, seen_at_fetch, rediscovered>>

\* No crawl is under way: there is no engine, no worker and no site.
CallInit ==
    /\ call \in Calls
    /\ ret = <<>>
    /\ NoCli
    /\ concurrency = 0
    /\ max_pages = 0
    /\ base_domain_netloc = <<>>
    /\ urls_to_visit = <<>>
    /\ unfinished = 0
    /\ visited_urls = {}
    /\ found_links_map = EmptyMap
    /\ semaphore = 0
    /\ pc = <<>>
    /\ held = <<>>
    /\ cancelReq = {}
    /\ cpc = "none"
    /\ cancelled = FALSE
    /\ site = EmptyMap
    /\ backlinks = "none"
    /\ offlinks = FALSE
    /\ pushed = [u \in Urls |-> 0]
    /\ fetched = [u \in Urls |-> 0]
    /\ absent = {}
    /\ completed = [u \in Urls |-> 0]
    /\ seen_at_fetch = <<>>
    /\ rediscovered = {}

CallCrawler ==
    /\ call.fn = "Crawler"
    /\ ret = <<>>
    /\ ret' = <<Crawler(call.base_url, call.concurrency, MaxBudget)>>
    /\ UNCHANGED <<call, crawl, cli>>

CallIsSameDomain ==
    /\ call.fn = "is_same_domain"
    /\ ret = <<>>
    /\ ret' = <<same_domain(call.url, call.base_domain_netloc)>>
    /\ UNCHANGED <<call, crawl, cli>>

CallNormalizeUrl ==
    /\ call.fn = "normalize_url"
    /\ ret = <<>>
    /\ ret' = <<normalize_url(call.url, call.base_url)>>
    /\ UNCHANGED <<call, crawl, cli>>

CallFetchPage ==
    /\ call.fn = "fetch_page"
    /\ ret = <<>>
    /\ ret' = <<fetch_page(call.url, call.reply)>>
    /\ UNCHANGED <<call, crawl, cli>>

\* A worker of a freshly constructed engine takes the seed and fetches it.
CallWorker ==
    /\ call.fn = "_worker"
    /\ ret = <<>>
    /\ ret' = <<worker_iteration(construct(call.url, <<"h">>, 1, MaxBudget).self,
                                 call.url, fetch_page(call.url, call.reply))>>
    /\ UNCHANGED <<call, crawl, cli>>

CallNext ==
    \/ CallCrawler
    \/ CallIsSameDomain
    \/ CallNormalizeUrl
    \/ CallFetchPage
    \/ CallWorker

CallSpec == CallInit /\ [][CallNext]_vars

\* ----------------------------------------------------------- command line
\* cli.main runs the crawl through crawl_site, which takes the page budget
\* from constants.DEFAULT_MAX_PAGES, next to the monitor task.

\* crawler_app.constants.DEFAULT_MAX_PAGES
DEFAULT_MAX_PAGES == 1000

\* main, line 203: result = {}; run_with_progress, lines 225-229: the
\* monitor task is created, then crawl_site constructs the Crawler.
CliInit ==
    /\ call = NoCall
    /\ ret = <<>>
    /\ main = "run"
    /\ result = EmptyMap
    /\ monitor = Monitor("new")
    /\ progress = NoProgress
    /\ polled = <<>>
    /\ concurrency \in 1 .. MaxConcurrency
    /\ max_pages = DEFAULT_MAX_PAGES
    /\ base_domain_netloc = get_domain_netloc(SeedUrl)
    /\ urls_to_visit = <<SeedUrl>>
    /\ unfinished = 1
    /\ visited_urls = {SeedUrl}
    /\ found_links_map = EmptyMap
    /\ semaphore = concurrency
    /\ pc = [w \in 1 .. concurrency |-> "unborn"]
    /\ held = [w \in 1 .. concurrency |-> <<>>]
    /\ cancelReq = {}
    /\ cpc = "init"
    /\ cancelled = FALSE
    /\ site = EmptyMap
    /\ backlinks \in BackStyles
    /\ offlinks \in BOOLEAN
    /\ pushed = [u \in Urls |-> IF u = SeedUrl THEN 1 ELSE 0]
    /\ fetched = [u \in Urls |-> 0]
    /\ absent = {}
    /\ completed = [u \in Urls |-> 0]
    /\ seen_at_fetch = [w \in 1 .. concurrency |-> {}]
    /\ rediscovered = {}

\* monitor_crawler_progress, lines 131-132: current_url, keys being
\* list(result_dict.keys()); current_count (line 128) is Len(keys)
current_url(m, keys) == IF keys # <<>> THEN <<keys[Len(keys)]>> ELSE m.last_url

\* monitor_crawler_progress, line 135: is there a change to report
changed(m, keys) == Len(keys) # m.last_count \/ current_url(m, keys) # m.last_url

\* monitor_crawler_progress, lines 126-142: one round of the loop, up to
\* the sleep
poll(m, keys) ==
    IF changed(m, keys)
    THEN [pc |-> "sleep", last_count |-> Len(keys), last_url |-> current_url(m, keys)]
    ELSE [m EXCEPT !.pc = "sleep"]

\* CrawlerProgress.update(crawled, latest_url), lines 82-83, called at
\* line 136
update(p, m, keys) ==
    IF changed(m, keys)
    THEN [pages_crawled |-> Len(keys), latest_url |-> current_url(m, keys)]
    ELSE p

\* The tasks of the crawl run.  The monitor task was created before the
\* workers, so its first round comes before any worker's first step.
CliCrawl ==
    /\ main = "run"
    /\ monitor.pc = "new" => cpc = "init"
    /\ Next

\* The monitor task runs one round: at its start, or after a sleep.  It
\* reads the dict it was given, `result` of main (line 225); the keys of a
\* dict come in insertion order, which the map here does not keep, so any
\* order is taken.
MonitorPoll ==
    /\ main = "run"
    /\ monitor.pc \in {"new", "sleep"}
    /\ cpc \in {"join", "gather"}
    /\ \E keys \in Orderings(DOMAIN result) :
          /\ monitor' = poll(monitor, keys)
          /\ progress' = update(progress, monitor, keys)
    /\ polled' = <<Cardinality(DOMAIN found_links_map)>>
    /\ UNCHANGED <<crawl, call, ret, main, result>>

\* run_with_progress, lines 229-236: crawl_site has returned; its map is
\* copied into `result` and the monitor task is cancelled, with no
\* suspension in between.
RunReturn ==
    /\ main = "run"
    /\ cpc = "returned"
    /\ result' = [k \in DOMAIN result \cup DOMAIN found_links_map |->
                    IF k \in DOMAIN found_links_map THEN found_links_map[k]
                    ELSE result[k]]
    /\ monitor' = [monitor EXCEPT !.pc = "cancelled"]
    /\ main' = "done"
    /\ UNCHANGED <<crawl, call, ret, progress, polled>>

CliNext == CliCrawl \/ MonitorPoll \/ RunReturn

CliSpec == CliInit /\ [][CliNext]_vars

\* ----------------------------------------------------------------- claims
Keys == DOMAIN found_links_map

SameHost(u) == is_same_domain(u, base_domain_netloc)

\* The pages reachable from the seed through same-host links of the site.
RECURSIVE ReachFrom(_)
ReachFrom(S) ==
    LET N == S \cup {l \in UNION {site[p] : p \in S \cap DOMAIN site} : SameHost(l)}
    IN IF N = S THEN S ELSE ReachFrom(N)

Reachable == ReachFrom({SeedUrl})

\* crawl() has returned and nobody cancelled it.
ReturnedNormally == cpc = "returned" /\ ~cancelled

\* C1: every URL is put on the queue at most once, and a same-host link of
\* a recorded page has been put exactly once, whichever workers found it.
C1_PushedOnce ==
    /\ \A u \in Urls : pushed[u] <= 1
    /\ \A p \in Keys : \A l \in found_links_map[p] : SameHost(l) => pushed[l] = 1

\* C1 witness: a link that was not visited when a worker began its fetch,
\* was put by another worker meanwhile, and was then found again.
C1_Witness ==
    /\ concurrency >= 2
    /\ \E c \in rediscovered : pushed[c] = 1 /\ c # SeedUrl

\* C2: the results map never holds more than max_pages entries.
C2_WithinBudget == Cardinality(Keys) <= max_pages

\* The site is a chain: each served page links its successor and nothing else.
IsChain ==
    \A p \in DOMAIN site :
        site[p] = IF p.path < NumPages - 1 THEN {PageUrl(p.path + 1)} ELSE {}

\* C3: on a chain longer than max_pages, with every fetch succeeding, the
\* map holds at most max_pages entries and no page at position >= max_pages.
C3_ChainBudget ==
    (IsChain /\ absent = {} /\ max_pages < NumPages) =>
        /\ Cardinality(Keys) <= max_pages
        /\ \A p \in Keys : p.path < max_pages

\* C3 witness: two workers, the budget cut a chain after max_pages pages.
C3_Witness ==
    /\ ReturnedNormally /\ IsChain /\ absent = {}
    /\ concurrency >= 2 /\ max_pages >= 2
    /\ Cardinality(Keys) = max_pages
    /\ PageUrl(max_pages) \in visited_urls

\* C4: when every fetch succeeds and at most max_pages pages are reachable,
\* crawl() returns exactly the reachable pages, each with the link set the
\* extractor gave for it.
C4_ReturnsReachable ==
    (ReturnedNormally /\ absent = {} /\ Cardinality(Reachable) <= max_pages) =>
        /\ Keys = Reachable
        /\ \A p \in Keys : found_links_map[p] = site[p]

\* C4 witness: two workers crawled a site of three pages or more entirely.
C4_Witness ==
    /\ ReturnedNormally /\ absent = {}
    /\ concurrency >= 2
    /\ Cardinality(Reachable) >= 3
    /\ Cardinality(Reachable) <= max_pages
    /\ Keys = Reachable

\* C5: whatever was put on the queue, fetched or recorded as a key is on
\* the base host.
C5_HostBoundary ==
    \A u \in Urls :
        (\/ pushed[u] > 0
         \/ fetched[u] > 0
         \/ u \in Keys
         \/ \E i \in 1 .. Len(urls_to_visit) : urls_to_visit[i] = u
         \/ \E w \in Workers : held[w] = <<u>>) => SameHost(u)

\* C5 witness: a recorded page links a subdomain and another host, and the
\* crawl went on to fetch a page it links on the base host.
C5_Witness ==
    \E p \in Keys :
        /\ {SubdomainUrl, ExternalUrl} \subseteq found_links_map[p]
        /\ \E l \in found_links_map[p] : l # p /\ SameHost(l) /\ fetched[l] = 1

\* C6: if the event loop keeps running ready tasks and every fetch returns,
\* crawl() returns, for every concurrency, budget and site.
C6_Terminates == <>(cpc = "returned")

\* C6 witness: crawl() returned after the budget test discarded queued URLs.
C6_Witness ==
    /\ ReturnedNormally
    /\ \E u \in visited_urls : completed[u] = 1 /\ fetched[u] = 0

\* Some served page is reachable from its own links.
HasCycle ==
    \E p \in DOMAIN site : p \in ReachFrom({l \in site[p] : SameHost(l)})

\* C7: on a site with a cycle no page is fetched twice, and when the site
\* is smaller than max_pages every page is fetched exactly once and is a key
\* when crawl() returns.
C7_CycleFetchedOnce ==
    HasCycle =>
        /\ \A u \in Urls : fetched[u] <= 1
        /\ (ReturnedNormally /\ absent = {} /\ Cardinality(Reachable) < max_pages)
              => \A p \in Reachable : fetched[p] = 1 /\ p \in Keys

\* C7 witness: two workers crawled two pages that link each other.
C7_Witness ==
    /\ ReturnedNormally /\ absent = {} /\ concurrency >= 2
    /\ Cardinality(Reachable) < max_pages
    /\ \E a, b \in Keys : a # b /\ b \in site[a] /\ a \in site[b]

\* C8: the value recorded for a page is the extractor's whole link set, and
\* no URL of another host is a key.
C8_ValuesUnfiltered ==
    /\ \A p \in Keys : found_links_map[p] = site[p]
    /\ Keys \cap OffHost = {}

\* C8 witness: a recorded value holds the page itself, a page visited
\* before, and the URL of another host.
C8_Witness ==
    \E p \in Keys :
        /\ p # SeedUrl
        /\ {p, SeedUrl, ExternalUrl} \subseteq found_links_map[p]

\* C9: when the fetch of the seed gives no content, nothing else is fetched,
\* the map stays empty, and the queue is drained so that join() returns.
C9_SeedAbsent ==
    SeedUrl \in absent =>
        /\ found_links_map = EmptyMap
        /\ \A u \in Urls : fetched[u] = IF u = SeedUrl THEN 1 ELSE 0
        /\ urls_to_visit = <<>>
        /\ unfinished = 0

\* C9 witness: crawl() returned after the seed's fetch failed.
C9_Witness == ReturnedNormally /\ SeedUrl \in absent /\ found_links_map = EmptyMap

\* C10: a URL whose processing failed is marked done exactly once and is
\* no key; a worker ends only on the budget or on cancellation; and a crawl
\* that returns below the budget has fetched and marked done every URL it
\* ever queued.
C10_FaultIsolated ==
    /\ \A u \in absent : completed[u] = 1 /\ u \notin Keys
    /\ \A w \in Workers :
          pc[w] = "exited" =>
              (w \in cancelReq \/ BudgetReached(found_links_map, max_pages))
    /\ (ReturnedNormally /\ ~BudgetReached(found_links_map, max_pages)) =>
          \A u \in visited_urls : fetched[u] = 1 /\ completed[u] = 1

\* C10 witness: a fetch failed, and a page queued after the failed one was
\* still recorded before crawl() returned.
C10_Witness ==
    /\ ReturnedNormally
    /\ ~BudgetReached(found_links_map, max_pages)
    /\ \E u \in absent : \E k \in Keys : k.path > u.path

\* A call of fn has been made and has given Result.
Called(fn) == call.fn = fn /\ ret # <<>>

Result == ret[1]

QueueAndMaps == {"urls_to_visit", "visited_urls", "found_links_map"}

\* C11: the constructor raises MissingProtocolError when the base URL has no
\* "://" (so for "" and for "http:/"); else InvalidProtocolError when what
\* stands before "://" is not http or https in any letter case; else
\* InvalidURLError when the netloc of the normalized base URL is empty (so
\* for "https://"); else nothing.  When it raises, neither the queue nor the
\* visited set nor the results map has been created.
C11_ConstructionFaults ==
    Called("Crawler") =>
        /\ Result.raised =
              IF ~Contains(call.base_url, ProtocolMark) THEN "MissingProtocolError"
              ELSE IF lower(Before(call.base_url, ProtocolMark)) \notin {Http, Https}
              THEN "InvalidProtocolError"
              ELSE IF domain_netloc(normalize_url(call.base_url, call.base_url)) = <<>>
              THEN "InvalidURLError"
              ELSE "none"
        /\ call.base_url \in {<<>>, <<"h", "t", "t", "p", ":", "/">>}
              => Result.raised = "MissingProtocolError"
        /\ call.base_url = <<"h", "t", "t", "p", "s", ":", "/", "/">>
              => Result.raised = "InvalidURLError"
        /\ Result.raised # "none" => DOMAIN Result.self \cap QueueAndMaps = {}

\* C11 witness: a base URL written "HTTP://" passed the protocol test and
\* was rejected for its empty netloc, with no queue created.
C11_Witness ==
    /\ Called("Crawler")
    /\ StartsWith(call.base_url, <<"H", "T", "T", "P", ":", "/", "/">>)
    /\ Result.raised = "InvalidURLError"
    /\ "urls_to_visit" \notin DOMAIN Result.self

\* C12: when the constructor returns, the queue holds the normalized base
\* URL and nothing else, the visited set is that URL alone, and the results
\* map is empty; "HTTP://h#f" gives the seed "http://h".
C12_AfterConstruction ==
    (Called("Crawler") /\ Result.raised = "none") =>
        /\ Result.self.urls_to_visit = <<normalize_url(call.base_url, call.base_url)>>
        /\ Result.self.visited_urls = {normalize_url(call.base_url, call.base_url)}
        /\ Result.self.found_links_map = EmptyMap
        /\ call.base_url = <<"H", "T", "T", "P", ":", "/", "/", "h", "#", "f">>
              => Result.self.urls_to_visit = <<<<"h", "t", "t", "p", ":", "/", "/", "h">>>>

\* C12 witness: the constructor returned for a base URL that normalization
\* changes.
C12_Witness ==
    /\ Called("Crawler")
    /\ Result.raised = "none"
    /\ call.base_url = <<"H", "T", "T", "P", ":", "/", "/", "h", "#", "f">>
    /\ Result.self.urls_to_visit # <<call.base_url>>

\* C13: when crawl() has left join() without being cancelled, the queue is
\* empty, no worker holds a URL, and every URL that was put on the queue
\* has been marked done.
C13_JoinBarrier ==
    (cpc \in {"gather", "returned"} /\ ~cancelled) =>
        /\ urls_to_visit = <<>>
        /\ \A w \in Workers : held[w] = <<>>
        /\ \A u \in Urls : completed[u] = pushed[u]

\* C13 witness: crawl() returned below the budget after two workers
\* crawled a page that put two new links on the queue.
C13_Witness ==
    /\ ReturnedNormally
    /\ concurrency >= 2
    /\ ~BudgetReached(found_links_map, max_pages)
    /\ \E p \in Keys : Cardinality((found_links_map[p] \cap Pages) \ {p, SeedUrl}) >= 2

\* C14: once crawl() is cancelled while it waits in join(), the results map
\* does not change any more, and crawl() returns, with every worker ended.
C14_CancelReturns ==
    /\ [][cancelled => found_links_map' = found_links_map]_vars
    /\ [](cancelled => <>(cpc = "returned" /\ \A w \in Workers : pc[w] = "exited"))

\* C14 witness: crawl() was cancelled while a worker was in a fetch and
\* returned the two pages recorded before.
C14_Witness ==
    /\ cancelled
    /\ cpc = "returned"
    /\ Cardinality(Keys) >= 2
    /\ \E u \in Urls : fetched[u] = 1 /\ completed[u] = 0

\* C15: when crawl() has returned every worker task has ended, and the map
\* it returned is not changed after that.
C15_WorkersEnded ==
    /\ [](cpc = "returned" => \A w \in DOMAIN pc : pc[w] = "exited")
    /\ [][cpc = "returned" => found_links_map' = found_links_map]_vars

\* C15 witness: crawl() returned below the budget, so all of its workers
\* were waiting in get() and ended by being cancelled.
C15_Witness ==
    /\ ReturnedNormally
    /\ concurrency >= 2
    /\ Keys # {}
    /\ ~BudgetReached(found_links_map, max_pages)
    /\ \A w \in DOMAIN pc : pc[w] = "exited"

\* The worker tasks created so far, and those inside fetch_page.
Spawned == {w \in DOMAIN pc : pc[w] # "unborn"}

InFetch == {w \in DOMAIN pc : pc[w] = "fetch"}

\* C16: crawl() creates exactly `concurrency` worker tasks, and at most
\* `concurrency` of them are inside fetch_page at any time.
C16_WorkerCount ==
    /\ Cardinality(Spawned) = IF cpc = "init" THEN 0 ELSE concurrency
    /\ Cardinality(InFetch) <= concurrency

\* C16 witness: two workers are inside fetch_page at once.
C16_Witness == concurrency = 2 /\ Cardinality(InFetch) = 2 /\ semaphore = 0

\* C17: the URL fetch_page returns is the URL the response came from once
\* the redirects were followed.
C17_ReturnsFinalUrl ==
    (Called("fetch_page") /\ call.reply.kind = "response") =>
        Result.url = call.reply.url

\* C18: fetch_page never raises; it returns a body exactly when the status
\* code is 200 and the content type holds "text/html", and then the body of
\* the response; 204 with an HTML content type gives none.
C18_ContentOnlyFor200Html ==
    Called("fetch_page") =>
        /\ ~Result.raised
        /\ (Result.html # <<>>) <=>
              /\ call.reply.kind = "response"
              /\ call.reply.status_code = 200
              /\ Contains(lower(call.reply.content_type), TextHtml)
        /\ Result.html # <<>> => Result.html = <<call.reply.text>>
        /\ (call.reply.kind = "response" /\ call.reply.status_code # 200)
              => Result.html = <<>>

\* C18 witness: a 204 response with an HTML content type gave no content.
C18_Witness ==
    /\ Called("fetch_page")
    /\ call.reply.kind = "response"
    /\ call.reply.status_code = 204
    /\ Contains(call.reply.content_type, TextHtml)
    /\ Result.html = <<>>

\* The authority the URL of an is_same_domain call was written with.
Authority(c) == IF c.slashes THEN c.authority ELSE <<>>

\* The rule of C19 on the parts the URL was written with.
SameByRule(c) ==
    /\ c.base_domain_netloc # <<>>
    /\ lower(c.scheme) \in {Http, Https}
    /\ \/ Authority(c) = c.base_domain_netloc
       \/ /\ Authority(c) = c.base_domain_netloc \o <<":", "8", "0">>
          /\ lower(c.scheme) = Http
       \/ /\ Authority(c) = c.base_domain_netloc \o <<":", "4", "4", "3">>
          /\ lower(c.scheme) = Https

Unparseable(c) == c.slashes /\ find(c.authority, "[") > 0 /\ find(c.authority, "]") = 0

C20_SchemeOrEmpty ==
    Called("normalize_url") =>
        (Result = <<>> \/ Before(Result, ProtocolMark) # <<>>)

\* The base URL of a normalize_url call parses and has scheme http or https.
HttpBase ==
    /\ ~urlparse(call.base_url, <<>>).error
    /\ urlparse(call.base_url, <<>>).scheme \in SUPPORTED_PROTOCOLS

\* The URL of the call after strip(), and what it holds before its fragment.
Stripped == strip(call.url)

Unfragmented == Before(Stripped, <<"#">>)

\* The query the URL of the call is written with ("" when it has none).
GivenQuery == After(Unfragmented, find(Unfragmented, "?"))

\* No segment of the path is "." or "..".
DotFree(path) ==
    \A i \in 1 .. Len(split(path, "/")) :
        split(path, "/")[i] \notin {<<".">>, <<".", ".">>}

\* The examples of parent traversal: "/a/../b" and, beyond the root, "/../a"
\* against "http://h/x/".
TraversalExamples ==
    call.base_url = <<"h", "t", "t", "p", ":", "/", "/", "h", "/", "x", "/">> =>
        /\ call.url = <<"/", "a", "/", ".", ".", "/", "b">>
              => Result = <<"h", "t", "t", "p", ":", "/", "/", "h", "/", "b">>
        /\ call.url = <<"/", ".", ".", "/", "a">>
              => Result = <<"h", "t", "t", "p", ":", "/", "/", "h", "/", "a">>

\* What holds of every normalize_url call with an http/https base: no
\* fragment in the result, and the query of the URL kept as written.
NoFragmentQueryKept ==
    /\ find(Result, "#") = 0
    /\ Result # <<>> /\ GivenQuery # <<>>
          => After(Result, find(Result, "?")) = GivenQuery

\* C21 as stated: for every url and every http/https base, the result has
\* no fragment; an empty or fragment-only url gives the base without its
\* fragment; parent traversal is resolved, beyond the root to the root; the
\* query is kept as given.
C21_Normalized ==
    Called("normalize_url") /\ HttpBase =>
        /\ NoFragmentQueryKept
        /\ Unfragmented = <<>> => Result = Before(call.base_url, <<"#">>)
        /\ Result # <<>> => DotFree(urlparse(Result, <<>>).path)
        /\ TraversalExamples

\* The base is written as normalize_url writes a URL: scheme in lower case,
\* nothing in the path that quote() changes, no empty query.
PlainBase ==
    /\ StartsWith(call.base_url, urlparse(call.base_url, <<>>).scheme)
    /\ quote(urlparse(call.base_url, <<>>).path) = urlparse(call.base_url, <<>>).path
    /\ find(Before(call.base_url, <<"#">>), "?") > 0
          => urlparse(call.base_url, <<>>).query # <<>>

\* The URL is a path reference: no scheme, no authority, a path.
PathReference ==
    /\ ~urlparse(Stripped, <<>>).error
    /\ urlparse(Stripped, <<>>).scheme = <<>>
    /\ urlparse(Stripped, <<>>).netloc = <<>>
    /\ urlparse(Stripped, <<>>).path # <<>>

\* C21 amended: the result has no fragment and keeps the query of the url;
\* an empty or fragment-only url gives the base without its fragment when
\* the base is written in normalized form; parent traversal is resolved,
\* beyond the root to the root, when the url is a path reference.
C21_NormalizedPathReference ==
    Called("normalize_url") /\ HttpBase =>
        /\ NoFragmentQueryKept
        /\ Unfragmented = <<>> /\ PlainBase
              => Result = Before(call.base_url, <<"#">>)
        /\ PathReference => DotFree(urlparse(Result, <<>>).path)
        /\ TraversalExamples

C21_Witness ==
    /\ Called("normalize_url")
    /\ call.url = <<"/", "a", "/", ".", ".", "/", "b">>
    /\ call.base_url = <<"h", "t", "t", "p", ":", "/", "/", "h", "/", "x", "/">>
    /\ Result = <<"h", "t", "t", "p", ":", "/", "/", "h", "/", "b">>

\* The URLs that wait in the queue or are in the hands of a worker.
Pending ==
    {urls_to_visit[i] : i \in 1 .. Len(urls_to_visit)}
        \cup {held[w][1] : w \in {v \in DOMAIN held : held[v] # <<>>}}

\* C22: whenever another task can run, every URL in the queue or held by
\* a worker is in visited_urls and no URL is in the queue twice; no step
\* takes a URL out of visited_urls.
C22_PendingVisited ==
    /\ [](/\ Pending \subseteq visited_urls
          /\ \A i, j \in 1 .. Len(urls_to_visit) :
                urls_to_visit[i] = urls_to_visit[j] => i = j)
    /\ [][visited_urls \subseteq visited_urls']_vars

\* C22 witness: a worker fetches a page that _process_links queued while
\* another such page waits in the queue.
C22_Witness ==
    /\ urls_to_visit # <<>>
    /\ \E w \in Workers : pc[w] = "fetch" /\ held[w][1] # SeedUrl
    /\ Cardinality(visited_urls) >= 3

\* Worker w, not cancelled, runs from the start of its task or from the
\* return of fetch_page to its next suspension: it ends one iteration, if
\* it was in one, and begins the next.
BeginsIteration(w) ==
    /\ w \notin cancelReq
    /\ pc[w] \in {"new", "fetch"}
    /\ pc'[w] # pc[w] \/ held'[w] # held[w]

\* How often URL x is in the queue.
InQueue(x) == Cardinality({i \in 1 .. Len(urls_to_visit) : urls_to_visit[i] = x})

\* What the step has put on the queue, and what it had in hand.
PutNow(x) == pushed'[x] - pushed[x]

InHand(w, x) == IF held[w] = <<x>> THEN 1 ELSE 0

\* C23: a worker that begins a loop iteration with len(found_links_map) >=
\* max_pages leaves the queue empty, has marked every URL it discarded done
\* exactly once (and the URL it just finished once), adds nothing to
\* found_links_map and visited_urls in that iteration, makes no fetch and
\* leaves its loop.
C23_BudgetDrain ==
    [][\A w \in Workers :
        BeginsIteration(w) /\ BudgetReached(found_links_map', max_pages) =>
            /\ urls_to_visit' = <<>>
            /\ pc'[w] = "exited"
            /\ fetched' = fetched
            /\ \A x \in Urls :
                  completed'[x] = completed[x] + InQueue(x) + PutNow(x) + InHand(w, x)
            /\ unfinished' = unfinished - Len(urls_to_visit) - Len(held[w])
            /\ DOMAIN found_links_map' \subseteq DOMAIN found_links_map \cup {held[w][i] : i \in 1 .. Len(held[w])}
            /\ visited_urls' = visited_urls \cup {x \in Urls : PutNow(x) > 0}
            /\ pc[w] = "new" =>
                  found_links_map' = found_links_map /\ visited_urls' = visited_urls
      ]_vars

\* C23 witness: a worker left its loop on the budget and a URL that no
\* worker fetched was marked done by the drain.
C23_Witness ==
    /\ BudgetReached(found_links_map, max_pages)
    /\ urls_to_visit = <<>>
    /\ \E w \in Workers : pc[w] = "exited" /\ w \notin cancelReq
    /\ \E x \in Pages : fetched[x] = 0 /\ completed[x] = 1 /\ pushed[x] = 1

\* The smaller of two numbers.
Min(a, b) == IF a <= b THEN a ELSE b

\* C24: when every fetch succeeded and crawl() returns without having been
\* cancelled, found_links_map holds at least min(max_pages, number of pages
\* reachable from the seed) entries; on a chain of more than max_pages
\* pages the page at position max_pages - 1 is a key.
C24_BudgetNotEarly ==
    ReturnedNormally /\ absent = {} =>
        /\ Cardinality(Keys) >= Min(max_pages, Cardinality(Reachable))
        /\ IsChain /\ max_pages < NumPages => PageUrl(max_pages - 1) \in Keys

\* C24 witness: the budget ended a crawl of a site with more reachable
\* pages than max_pages, with max_pages pages or more recorded.
C24_Witness ==
    /\ ReturnedNormally /\ absent = {}
    /\ max_pages >= 2
    /\ Cardinality(Reachable) > max_pages
    /\ Cardinality(Keys) >= max_pages
    /\ \E x \in Pages : fetched[x] = 0 /\ completed[x] = 1

\* The keys that a chain of same-host links between recorded pages reaches
\* from the pages S.
RECURSIVE KeyReach(_)
KeyReach(S) ==
    IF S \cup {l \in UNION {found_links_map[p] : p \in S \cap Keys} :
                  SameHost(l) /\ l \in Keys} = S
    THEN S
    ELSE KeyReach(S \cup {l \in UNION {found_links_map[p] : p \in S \cap Keys} :
                            SameHost(l) /\ l \in Keys})

\* C25: a key other than the seed is, when it is recorded, a same-host link
\* in the link set of a key recorded before it; so every key is reached
\* from the seed by a chain of same-host links between recorded pages.
C25_KeysLinked ==
    /\ [][\A k \in Keys' \ Keys :
            k # SeedUrl =>
                \E p \in Keys : k \in found_links_map[p] /\ SameHost(k)]_vars
    /\ [](Keys \subseteq KeyReach({SeedUrl}))

\* C25 witness: a recorded page that the seed does not link, found through
\* another recorded page.
C25_Witness ==
    /\ SeedUrl \in Keys
    /\ \E k \in Keys \ {SeedUrl} :
          /\ k \notin found_links_map[SeedUrl]
          /\ \E p \in Keys \ {SeedUrl, k} : k \in found_links_map[p]

\* C26: no step of a crawl, the budget drain and cancellation included,
\* takes a key out of found_links_map.
C26_KeysGrow == [][Keys \subseteq Keys']_vars

\* C26 witness: a crawl with two recorded pages or more was cancelled and
\* its workers have ended.
C26_Witness ==
    /\ cancelled
    /\ Cardinality(Keys) >= 2
    /\ \A w \in Workers : pc[w] = "exited"

\* Worker w, not cancelled, gets no content from fetch_page (or an
\* exception that line 200 catches) and runs on to its next suspension.
FetchGaveNothing(w) ==
    /\ w \notin cancelReq
    /\ pc[w] = "fetch"
    /\ absent' = absent \cup {held[w][1]}
    /\ absent' # absent

\* The worker is inside the semaphore block in the state after the step.
InBlock(w) == IF pc'[w] = "fetch" THEN 1 ELSE 0

\* C27: processing a URL whose fetch gives no content changes neither
\* found_links_map nor visited_urls and puts nothing on the queue; the item
\* is marked done once and the permit is given back.  What the queue loses
\* in the same step is what the next iteration takes: nothing when the
\* queue is empty, its first URL, or all of it once the budget is reached.
C27_AbsentFrame ==
    [][\A w \in Workers :
        FetchGaveNothing(w) =>
            /\ found_links_map' = found_links_map
            /\ visited_urls' = visited_urls
            /\ pushed' = pushed
            /\ semaphore' + InBlock(w) = semaphore + 1
            /\ IF BudgetReached(found_links_map, max_pages)
               THEN /\ urls_to_visit' = <<>>
                    /\ \A x \in Urls :
                          completed'[x] = completed[x] + InHand(w, x) + InQueue(x)
                    /\ unfinished' = unfinished - 1 - Len(urls_to_visit)
               ELSE /\ completed' = [completed EXCEPT ![held[w][1]] = @ + 1]
                    /\ unfinished' = unfinished - 1
                    /\ IF urls_to_visit = <<>>
                       THEN urls_to_visit' = <<>> /\ pc'[w] = "get"
                       ELSE /\ urls_to_visit' = Tail(urls_to_visit)
                            /\ held'[w] = <<Head(urls_to_visit)>>
      ]_vars

\* C27 witness: the fetch of a queued page gave no content, the page was
\* marked done, and the worker went on to fetch the next URL.
C27_Witness ==
    /\ cpc = "join"
    /\ \E u \in absent \ {SeedUrl} : completed[u] = 1 /\ u \notin Keys
    /\ \E w \in Workers : pc[w] = "fetch" /\ held[w][1] \notin absent

\* C28: while the command line's crawl runs, a poll of the monitor made
\* after pages were recorded has reported their number and a recorded URL
\* as the latest one.
C28_MonitorSeesProgress ==
    main = "run" /\ polled # <<>> =>
        /\ progress.pages_crawled = polled[1]
        /\ polled[1] > 0 =>
              /\ progress.latest_url # <<>>
              /\ \A i \in 1 .. Len(progress.latest_url) :
                    progress.latest_url[i] \in Keys

\* The call compares authority a with base netloc b under scheme s, written
\* in any letter case.
Compares(s, a, b) ==
    /\ Called("is_same_domain")
    /\ call.slashes
    /\ lower(call.scheme) = s
    /\ call.authority = a
    /\ call.base_domain_netloc = b

\* C29: is_same_domain gives True when one side carries the default port
\* of the scheme and the other none: authority "h:80" with base "h" and
\* authority "h" with base "h:80" under http, the same with 443 under
\* https.
C29_DefaultPortEitherSide ==
    \/ Compares(Http, <<"h", ":", "8", "0">>, <<"h">>)
    \/ Compares(Http, <<"h">>, <<"h", ":", "8", "0">>)
    \/ Compares(Https, <<"h", ":", "4", "4", "3">>, <<"h">>)
    \/ Compares(Https, <<"h">>, <<"h", ":", "4", "4", "3">>)
    => Result

\* The pages one same-host link away from the pages W, and W.
OneLinkFrom(W) ==
    W \cup {l \in UNION {site[p] : p \in W \cap DOMAIN site} : SameHost(l)}

\* The pages at most n links away from the seed.
RECURSIVE Within(_)
Within(n) == IF n = 0 THEN {SeedUrl} ELSE OneLinkFrom(Within(n - 1))

\* The link distance of page x from the seed.
Distance(x) ==
    CHOOSE n \in 0 .. NumPages : x \in Within(n) /\ (n = 0 \/ x \notin Within(n - 1))

\* What is left of the old queue stands, in its order, at the front of the
\* new one, and behind it only URLs that this step has put.
KeepsOrder(n) ==
    /\ Len(urls_to_visit') >= Len(urls_to_visit) - n
    /\ SubSeq(urls_to_visit', 1, Len(urls_to_visit) - n)
          = SubSeq(urls_to_visit, n + 1, Len(urls_to_visit))
    /\ \A i \in Len(urls_to_visit) - n + 1 .. Len(urls_to_visit') :
          PutNow(urls_to_visit'[i]) > 0

\* A worker that takes a URL from a queue that is not empty takes its head.
TakesHead ==
    \A w \in Workers :
        pc'[w] = "fetch" /\ held'[w] # held[w] /\ urls_to_visit # <<>>
            => held'[w] = <<Head(urls_to_visit)>>

\* With one worker: the queue is in order of link distance, and no page
\* whose fetch began is farther from the seed than one that still waits or
\* was discarded; the map stays within the budget.
BreadthFirst ==
    /\ \A i, j \in 1 .. Len(urls_to_visit) :
          i < j => Distance(urls_to_visit[i]) <= Distance(urls_to_visit[j])
    /\ \A x, y \in visited_urls :
          fetched[x] > 0 /\ fetched[y] = 0 => Distance(x) <= Distance(y)
    /\ Cardinality(Keys) <= max_pages

\* C30: URLs leave the queue in the order in which they were put; with
\* concurrency = 1 the pages are therefore fetched in non-decreasing link
\* distance from the seed, and under a budget the recorded pages are the
\* first max_pages of that order.
C30_Fifo ==
    /\ [][(\E n \in 0 .. Len(urls_to_visit) : KeepsOrder(n)) /\ TakesHead]_vars
    /\ [](concurrency = 1 => BreadthFirst)

\* C30 witness: one worker, the budget ended the crawl after a page two
\* links from the seed was recorded, and a page waiting behind it was
\* discarded.
C30_Witness ==
    /\ concurrency = 1
    /\ ReturnedNormally
    /\ \E k \in Keys : Distance(k) >= 2
    /\ \E y \in visited_urls : fetched[y] = 0 /\ completed[y] = 1

\* C31: found_links_map never holds more than max_pages + concurrency - 1
\* entries: the budget is tested at the loop top only, so each worker that
\* is past the test when the budget is reached records one page at most.
C31_Overshoot == Cardinality(Keys) <= max_pages + concurrency - 1

\* C31 witness: two workers or more, and the map holds max_pages +
\* concurrency - 1 entries.
C31_Witness ==
    /\ concurrency >= 2
    /\ Cardinality(Keys) = max_pages + concurrency - 1

\* The workers that hold a URL they took from the queue.
Holding == {w \in DOMAIN held : held[w] # <<>>}

\* C32: while the crawl is not cancelled, the unfinished count of the queue
\* is the number of URLs in the queue plus the number of workers holding
\* one; no URL has more task_done calls than puts, and the count is never
\* negative.
C32_UnfinishedCount ==
    /\ ~cancelled => unfinished = Len(urls_to_visit) + Cardinality(Holding)
    /\ unfinished >= 0
    /\ \A u \in Urls : completed[u] <= pushed[u]

\* C32 witness: two workers hold a URL each while crawl() waits in join().
C32_Witness ==
    /\ ~cancelled /\ cpc = "join"
    /\ Cardinality(Holding) = 2
    /\ unfinished >= 2
    /\ \E u \in Pages : completed[u] = 1

\* C33: in every state, after a cancellation too, all same-host links of
\* every recorded page are in visited_urls: a page is recorded and its
\* links are enqueued without a suspension in between.
C33_LinksVisited ==
    \A k \in Keys : \A l \in found_links_map[k] : SameHost(l) => l \in visited_urls

\* C33 witness: crawl() was cancelled, and a recorded page has two same-host
\* links or more, one of them still waiting to be fetched.
C33_Witness ==
    /\ cancelled
    /\ \E k \in Keys :
          /\ Cardinality({l \in found_links_map[k] : SameHost(l)}) >= 2
          /\ \E l \in found_links_map[k] : SameHost(l) /\ fetched[l] = 0

\* C34: every key of found_links_map is in visited_urls, was put on the
\* queue once and taken from it by a worker once; no step changes the link
\* set of a key that is already there.
C34_KeysOnce ==
    /\ [](\A k \in Keys : k \in visited_urls /\ pushed[k] = 1 /\ fetched[k] = 1)
    /\ [][\A k \in Keys : k \in Keys' /\ found_links_map'[k] = found_links_map[k]]_vars

\* C34 witness: a recorded page was found again as a link of another
\* recorded page, and was fetched once.
C34_Witness ==
    \E k \in Keys \ {SeedUrl} :
        /\ fetched[k] = 1
        /\ Cardinality({p \in Keys : k \in found_links_map[p]}) >= 2

\* What fetch_page returns for absent content.
NoContent(url) == [url |-> url, html |-> <<>>, raised |-> FALSE]

\* The reply is a 200 response of an HTML content type with an empty body.
EmptyHtml(reply) ==
    /\ reply.kind = "response"
    /\ reply.status_code = 200
    /\ Contains(lower(reply.content_type), TextHtml)
    /\ reply.text = <<>>

\* C35: a worker whose fetch gets a 200 HTML response with an empty body
\* leaves the engine as it does for absent content: the URL is no key of
\* found_links_map and nothing is added to visited_urls and the queue.
C35_EmptyBodyAbsent ==
    Called("_worker") /\ EmptyHtml(call.reply) =>
        /\ Result = worker_iteration(construct(call.url, <<"h">>, 1, MaxBudget).self,
                                     call.url, NoContent(call.url))
        /\ call.url \notin DOMAIN Result.found_links_map
        /\ Result.visited_urls = {call.url}
        /\ Result.urls_to_visit = <<>>

\* C35 witness: the fetch got an empty HTML body and the map stayed empty.
C35_Witness ==
    /\ Called("_worker")
    /\ EmptyHtml(call.reply)
    /\ fetch_page(call.url, call.reply).html = <<<<>>>>
    /\ DOMAIN Result.found_links_map = {}

\* The fetch_page calls made so far, each with its URL.
Fetches == UNION {{<<u, i>> : i \in 1 .. fetched[u]} : u \in Urls}

\* C36: a URL whose fetch gave no content is no key of found_links_map, so
\* it does not count against the budget; the fetch_page calls number at
\* least the recorded and the failed pages together, and never more than
\* the URLs in visited_urls.
C36_FetchesBeyondBudget ==
    /\ Keys \cap absent = {}
    /\ Cardinality(Keys) + Cardinality(absent) <= Cardinality(Fetches)
    /\ Cardinality(Fetches) <= Cardinality(visited_urls)

\* C36 witness: more fetch_page calls were made than max_pages +
\* concurrency - 1, with found_links_map still under the budget.
C36_Witness ==
    /\ Cardinality(Fetches) > max_pages + concurrency - 1
    /\ Cardinality(Keys) < max_pages
    /\ absent # {}

\* C37: on an engine built with concurrency = 0, crawl() creates no worker,
\* the seed stays in the queue with its unfinished count of 1, nothing is
\* fetched or recorded, and crawl() never gets past join() unless its
\* caller cancels it.
C37_ZeroConcurrency ==
    concurrency = 0 =>
        /\ DOMAIN pc = {}
        /\ urls_to_visit = <<SeedUrl>>
        /\ unfinished = 1
        /\ Fetches = {}
        /\ found_links_map = EmptyMap
        /\ cpc \in {"gather", "returned"} => cancelled

\* C37 witness: crawl() waits in join() with no worker and no permit.
C37_Witness ==
    /\ concurrency = 0
    /\ semaphore = 0
    /\ cpc = "join"
    /\ ~ ENABLED Run

\* C38: normalize_url is idempotent: with an http or https base, normalising
\* its result against the same base gives that result again, also when the
\* path of the URL already holds a percent-escape.
C38_Idempotent ==
    (Called("normalize_url") /\ HttpBase) =>
        normalize_url(Result, call.base_url) = Result

\* C39: in every state the free permits of the semaphore and the workers
\* inside `async with self.semaphore` together number `concurrency`, however
\* a worker left the block (content, no content, cancellation in
\* fetch_page), and no worker ever waits for a permit.
C39_PermitsBalance ==
    /\ semaphore + Cardinality(InFetch) = concurrency
    /\ \A w \in DOMAIN pc : pc[w] # "acquire"

\* C39 witness: every worker has ended, one of them cancelled inside
\* fetch_page, after a page was recorded and another gave no content.
C39_Witness ==
    /\ \A w \in DOMAIN pc : pc[w] = "exited"
    /\ \E u \in Urls : fetched[u] = 1 /\ completed[u] = 0
    /\ Keys # {} /\ absent # {}
    /\ semaphore = concurrency

\* The URLs whose fetch_page call was cut short by the cancellation of the
\* worker that held them.
Lost ==
    {u \in Urls : /\ fetched[u] > completed[u]
                  /\ \A w \in DOMAIN held : held[w] # <<u>>}

\* Worker w is cancelled inside fetch_page in this step.
CancelledInFetch(w) == w \in cancelReq /\ pc[w] = "fetch" /\ pc'[w] = "exited"

\* C40: a worker cancelled inside fetch_page ends without task_done for the
\* URL it holds, without recording it and without putting it back; such a
\* URL keeps the unfinished count above zero for as long as the engine
\* lives, and a crawl() called later on the engine leaves join() only by
\* cancellation.
C40_CancelledUrlLost ==
    /\ [][\A w \in DOMAIN pc : CancelledInFetch(w) =>
              /\ unfinished' = unfinished
              /\ completed' = completed
              /\ urls_to_visit' = urls_to_visit
              /\ found_links_map' = found_links_map
              /\ held[w][1] \in Lost']_vars
    /\ [](/\ unfinished >= Cardinality(Lost)
          /\ \A u \in Lost : u \notin Keys /\ InQueue(u) = 0)
    /\ [][Lost # {} => Lost \subseteq Lost']_vars
    /\ [][(Lost # {} /\ cpc = "join" /\ cpc' # "join") => cancelled']_vars

\* C40 witness: a later crawl() on an engine with a lost URL waits in
\* join(), its workers all waiting on the empty queue.
C40_Witness ==
    /\ Lost # {}
    /\ ~cancelled
    /\ cpc = "join"
    /\ urls_to_visit = <<>>
    /\ \A w \in DOMAIN pc : pc[w] = "get"

=============================================================================
